---- MODULE Spec2Model ----
(***************************************************************************)
(* Model of the symmstate mode-stability / perturbation-sweep pipeline:    *)
(* Perturbations (flpz/perturbations.py), SmodesProcessor                  *)
(* (flpz/smodes_processor.py) and the AbinitFile job dispatch              *)
(* (abinit/abinit_file.py).                                                *)
(***************************************************************************)
EXTENDS Integers, Sequences, FiniteSets, TLC

\* ------------------------------------------------------------------------
\* Bounds of the model
\* ------------------------------------------------------------------------
MaxPoints == 3
\* mantissa width of the modelled binary floating-point format
MantBits == 5
\* fractional bits: one unit of the integers below is 2^-FracBits
FracBits == 10
\* invocations of a sweep (on the same object or as a new process) per run
MaxRuns == 2
\* symmetry-adapted modes of the stability stage
MaxModes == 2
\* amplitude points of each of the two concurrent sweeps
ConcPoints == 1

\* ------------------------------------------------------------------------
\* Floating-point arithmetic of generate_perturbations.  A float is an
\* integer count of units 2^-FracBits whose magnitude has at most MantBits
\* significant bits; every operation rounds to nearest, ties to even, as
\* IEEE-754 binary arithmetic does.
\* ------------------------------------------------------------------------
RECURSIVE Pow2(_)
Pow2(n) ==
    IF n <= 0 THEN 1 ELSE 2 * Pow2(n - 1)

Abs(x) ==
    IF x < 0 THEN -x ELSE x

Sign(x) ==
    IF x < 0 THEN -1 ELSE IF x > 0 THEN 1 ELSE 0

RoundHalfEven(n, d) ==
    LET q == n \div d
        r == n % d
    IN  IF 2 * r < d THEN q
        ELSE IF 2 * r > d THEN q + 1
        ELSE IF q % 2 = 0 THEN q ELSE q + 1

RECURSIVE ExpOf(_, _, _)
ExpOf(n, d, s) ==
    IF n \div Pow2(MantBits + s) < d THEN s ELSE ExpOf(n, d, s + 1)

\* the float nearest to the rational a/b (b > 0)
RoundQ(a, b) ==
    LET n == Abs(a)
        s == ExpOf(n, b, 0)
    IN  Sign(a) * RoundHalfEven(n, b * Pow2(s)) * Pow2(s)

\* int -> float conversion of a loop index or a count
FromInt(i) ==
    RoundQ(i * Pow2(FracBits), 1)

FSub(x, y) ==
    RoundQ(x - y, 1)

FAdd(x, y) ==
    RoundQ(x + y, 1)

FMul(x, y) ==
    RoundQ(x * y, Pow2(FracBits))

FDiv(x, y) ==
    RoundQ(x * Pow2(FracBits), Abs(y)) * Sign(y)

\* amplitudes a caller may pass: -1, -1/2, 0, 1/2, 1, 3/2 and 2^-MantBits
Amps ==
    { k * Pow2(FracBits - 1) : k \in -2..3 } \cup { Pow2(FracBits - MantBits) }

\* ------------------------------------------------------------------------
\* File names.  A name is a stem (its "_"-joined parts) and an extension
\* (its "."-led parts); a directory is the set of names that exist in it.
\* ------------------------------------------------------------------------
Digits ==
    <<"0", "1", "2", "3", "4", "5", "6", "7", "8", "9">>

Str(n) ==
    Digits[n + 1]

Name(stem, ext) ==
    [stem |-> stem, ext |-> ext]

\* f"{stem}_{part}"
Join(stem, part) ==
    Append(stem, part)

\* f"{name}{ext}"
WithExt(nm, ext) ==
    Name(nm.stem, Append(nm.ext, ext))

\* the while loop of _get_unique_filename, from counter c on
RECURSIVE UniqueFrom(_, _, _)
UniqueFrom(files, nm, c) ==
    LET unique_name == Name(Join(nm.stem, Str(c)), nm.ext)
    IN  IF unique_name \in files THEN UniqueFrom(files, nm, c + 1)
        ELSE unique_name

\* AbinitFile._get_unique_filename: the name itself unless it exists
GetUniqueFilename(files, nm) ==
    IF nm \in files THEN UniqueFrom(files, nm, 1) ELSE nm

\* Python's None, the value of a quantity that was not extracted
None == 0

\* what a file holds: the job whose output it is (None for a file the
\* program wrote) and whether the markers the parsers look for are present
Content(job, ok) ==
    [job |-> job, ok |-> ok]

WriteFile(d, nm, c) ==
    [n \in DOMAIN d \cup {nm} |-> IF n = nm THEN c ELSE d[n]]

RemoveFile(d, nm) ==
    [n \in DOMAIN d \ {nm} |-> d[n]]

\* AbinitFile.file_name of the structure a Perturbations object starts from
BaseFileName ==
    <<"pert">>

\* ------------------------------------------------------------------------
\* State
\* ------------------------------------------------------------------------
VARIABLES
    \* Perturbations: constructor arguments
    kind, num_datapoints, min_amp, max_amp,
    \* Perturbations: attributes
    list_amps, perturbed_objects, list_abi_files, list_energies,
    list_piezo_tensors_clamped, list_piezo_tensors_relaxed,
    list_flexo_tensors, running_jobs,
    \* Perturbations: control position (pc), loop indices, raised exception
    sw_pc, sw_i, sw_k, sw_err,
    \* working directory, scheduler (job -> state and output file)
    disk, sched, sched_out,
    \* history: invocations so far, jobs submitted at each call of
    \* wait_for_jobs_to_finish, job dispatched for each point in this
    \* invocation, names written over an existing file, points whose own
    \* job left no output that parses in this invocation
    sw_run, wait_log, sw_jobof, overwritten, sw_failed,
    \* SmodesProcessor: num_sam, disp_mag, jobs_ran_abo, the structure of
    \* its abinit_file (reduced coordinates), the jobs of its slurm_obj,
    \* the force samples read
    num_sam, disp_mag, jobs_ran_abo, xred, slurm_jobs, force_mat_raw,
    \* SmodesProcessor: control position, loop indices, raised exception,
    \* the local original_coords of _loop_modes
    st_pc, st_j, st_k, st_err, original_coords,
    \* history: calls of symmadapt so far and, for the current call, the
    \* jobs dispatched at each call of wait_for_jobs_to_finish, the waits
    \* that returned, the output files opened, the reduced coordinates
    \* written to each input file
    st_calls, st_wait_log, st_waited, st_read, st_inputs,
    \* two concurrent sweeps: per process its position, point, structure
    \* name and the name its last existence check returned
    cc_pc, cc_i, cc_fn, cc_name,
    \* history: the names each process has written
    cc_written,
    \* SmodesProcessor, the analysis of _perform_calculations: natom,
    \* dist_mat, mass_list (one species), unstable_threshold, the local
    \* freq_thz, dynevecs_sam and idx_dyn, the attributes freq_cm, red_mass
    \* and phonon_vecs
    natom, dist_mat, mass_list, unstable_threshold, freq_thz, dynevecs_sam,
    idx_dyn, freq_cm, red_mass, phonon_vecs,
    \* what _imaginary_frequencies returned to unstable_phonons and
    \* unstable_phonons to run_program, the Perturbations
    \* objects run_program has created, the sweep jobs they have submitted
    negative_indices, normalized_phonon_vecs, pg_perturbations, pg_jobs,
    \* history: the calls of unstable_phonons so far
    cls_calls,
    \* SmodesProcessor, the force constants of _perform_calculations:
    \* sam_atom_label, type_list, force_matrix, the local mass_vector,
    \* fc_mat before it is symmetrized, springs_constants_matrix, dyn_mat,
    \* the warnings issued
    sam_atom_label, type_list, force_matrix, mass_vector, fc_mat,
    springs_constants_matrix, dyn_mat, fc_warnings,
    \* SmodesProcessor.stabilize_matrix: the caller's array, the arguments
    \* threshold, epsilon and alpha, what the local name matrix is bound
    \* to once it is rebound, the row of the loop, the control position,
    \* the array returned
    matrix, threshold, epsilon, alpha, sb_local, sb_i, sb_pc, sb_result,
    \* history: the caller's array as it was at the call
    sb_arg,
    \* the pseudos command: its options add, delete and list_pseudos, the
    \* paths that are files, the registry of the PseudopotentialManager
    \* (the names in its folder), what the command has echoed, its control
    \* position, loop index and raised exception
    add, delete, list_pseudos, cli_files, pseudo_registry, cli_echo, cli_pc,
    cli_i, cli_err,
    \* history: the registry when the command started
    cli_registry0,
    \* grab_piezo_tensor on its own: the output files in the directory
    \* (name -> the blocks of the file), the attributes
    \* piezo_tensor_clamped and piezo_tensor_relaxed of the AbinitFile
    gp_disk, piezo_tensor_clamped, piezo_tensor_relaxed,
    \* history: the file the last call opened, the calls so far
    gp_file, gp_calls,
    \* control position and raised exception of the analysis and of
    \* run_program
    an_pc, an_err

swCfg == <<kind, num_datapoints, min_amp, max_amp>>
swLists == <<list_amps, perturbed_objects, list_abi_files, list_energies,
             list_piezo_tensors_clamped, list_piezo_tensors_relaxed,
             list_flexo_tensors, running_jobs>>
swCtl == <<sw_pc, sw_i, sw_k, sw_err>>
envVars == <<disk, sched, sched_out>>
swHist == <<sw_run, wait_log, sw_jobof, overwritten, sw_failed>>
swVars == <<swCfg, swLists, swCtl, swHist>>
stCfg == <<num_sam, disp_mag>>
stData == <<jobs_ran_abo, xred, slurm_jobs, force_mat_raw>>
stCtl == <<st_pc, st_j, st_k, st_err, original_coords>>
stHist == <<st_calls, st_wait_log, st_waited, st_read, st_inputs>>
stVars == <<stCfg, stData, stCtl, stHist>>
\* the sweep's variables a stability stage in the same directory leaves alone
swOwn == <<swCfg, swLists, swCtl, sw_run, wait_log, sw_jobof, sw_failed>>
ccVars == <<cc_pc, cc_i, cc_fn, cc_name, cc_written>>
mdIn == <<natom, dist_mat, mass_list, unstable_threshold, dynevecs_sam>>
mdOut == <<freq_thz, idx_dyn, freq_cm, red_mass, phonon_vecs>>
pgVars == <<negative_indices, normalized_phonon_vecs, pg_perturbations,
           pg_jobs, cls_calls>>
fcIn == <<sam_atom_label, type_list>>
fcOut == <<force_matrix, mass_vector, fc_mat, springs_constants_matrix,
           dyn_mat, fc_warnings>>
fcVars == <<fcIn, fcOut>>
sbArgs == <<threshold, epsilon, alpha, sb_arg>>
sbVars == <<matrix, sbArgs, sb_local, sb_i, sb_pc, sb_result>>
clArgs == <<add, delete, list_pseudos, cli_files, cli_registry0>>
clVars == <<clArgs, pseudo_registry, cli_echo, cli_pc, cli_i, cli_err>>
\* the analysis of SmodesProcessor and run_program
anOwn == <<mdIn, mdOut, pgVars, fcVars, sbVars, an_pc, an_err>>
gpVars == <<gp_disk, piezo_tensor_clamped, piezo_tensor_relaxed, gp_file,
           gp_calls>>
anVars == <<anOwn, clVars, gpVars>>
vars == <<swVars, stVars, ccVars, anVars, envVars>>

Kinds == {"energy", "piezo", "flexo"}

\* the mode displacement of the sweep (self.pert), one component
Pert ==
    Pow2(FracBits)

\* AbinitFile.perturbations: a copy of the base structure displaced by
\* perturbed_values, with the base's attributes
PerturbedObject(amp) ==
    [file_name |-> BaseFileName,
     amp |-> amp,
     displacement |-> FMul(amp, Pert),
     energy |-> None,
     piezo_tensor_clamped |-> None,
     piezo_tensor_relaxed |-> None,
     flexo_tensor |-> None,
     running_jobs |-> <<>>]

\* Perturbations.__init__ with the given arguments, in a directory d
InitPerturbations(k, n, lo, hi) ==
    /\ kind = k
    /\ num_datapoints = n
    /\ min_amp = lo
    /\ max_amp = hi
    /\ list_amps = <<>>
    /\ perturbed_objects = <<>>
    /\ list_abi_files = <<>>
    /\ list_energies = <<>>
    /\ list_piezo_tensors_clamped = <<>>
    /\ list_piezo_tensors_relaxed = <<>>
    /\ list_flexo_tensors = <<>>
    /\ running_jobs = <<>>
    /\ sw_pc = "new"
    /\ sw_i = 1
    /\ sw_k = 1
    /\ sw_err = "none"
    /\ sw_run = 1
    /\ wait_log = <<>>
    /\ sw_jobof = <<>>
    /\ sw_failed = {}

InitEnv ==
    /\ disk = <<>>
    /\ sched = <<>>
    /\ sched_out = <<>>
    /\ overwritten = {}

\* ------------------------------------------------------------------------
\* Perturbations.generate_perturbations
\* ------------------------------------------------------------------------
\* a step size divided by the number of points, not of intervals
StepSizeOverPoints(lo, hi, n) ==
    FDiv(FSub(hi, lo), FromInt(n))

StepSize(lo, hi, n) ==
    FDiv(FSub(hi, lo), FromInt(n - 1))

CurrentAmp(lo, hi, n, i) ==
    FAdd(lo, FMul(FromInt(i), StepSize(lo, hi, n)))

\* the amplitudes of range(n), in order
GeneratedAmps(lo, hi, n) ==
    [j \in 1..n |-> CurrentAmp(lo, hi, n, j - 1)]

GeneratePerturbations ==
    /\ sw_pc = "new"
    /\ IF num_datapoints - 1 = 0
       THEN /\ sw_pc' = "raised"
            /\ sw_err' = "ZeroDivisionError"
            /\ UNCHANGED <<list_amps, perturbed_objects>>
       ELSE LET amps == GeneratedAmps(min_amp, max_amp, num_datapoints)
            IN  /\ list_amps' = list_amps \o amps
                /\ perturbed_objects' = perturbed_objects \o
                       [j \in 1..num_datapoints |-> PerturbedObject(amps[j])]
                /\ sw_pc' = "generated"
                /\ sw_err' = sw_err
    /\ UNCHANGED <<stVars, ccVars, anVars, swCfg, list_abi_files, list_energies,
                   list_piezo_tensors_clamped, list_piezo_tensors_relaxed,
                   list_flexo_tensors, running_jobs, sw_i, sw_k, swHist,
                   envVars>>

\* ------------------------------------------------------------------------
\* Job dispatch: AbinitFile.write_custom_abifile, AbinitFile.run_abinit and
\* the run_*_calculation methods that call them
\* ------------------------------------------------------------------------
Range(s) ==
    { s[i] : i \in 1..Len(s) }

\* the file write_custom_abifile writes for output_file: the existence
\* check is made on output_file, the write on f"{output_file}.abi"
AbiFileWritten(files, output_file) ==
    WithExt(GetUniqueFilename(files, Name(output_file, <<>>)), ".abi")

\* the data file run_abinit writes for input_file
InputDataFile(files, input_file) ==
    GetUniqueFilename(files,
        Name(Join(input_file, "abinit_input_data"), <<".txt">>))

\* the batch script run_abinit has written for batch_name
BatchScript(files, batch_name) ==
    GetUniqueFilename(files, Name(batch_name, <<".sh">>))

\* the file run_abinit removes in its finally clause: f"{batch_name}.sh",
\* batch_name being the script's name by then
BatchScriptRemoved(script) ==
    WithExt(script, ".sh")

\* the output file the solver is told to write for input_file
OutputFile(input_file) ==
    Name(input_file, <<".abo">>)

\* the next job number sbatch hands out
NextJob ==
    Cardinality(DOMAIN sched) + 1

\* write_custom_abifile(output_file) followed by run_abinit(input_file =
\* output_file, batch_name): the directory afterwards, the names written
FilesOfDispatch(d, output_file, batch_name) ==
    LET abi == AbiFileWritten(DOMAIN d, output_file)
        d1 == WriteFile(d, abi, Content(None, TRUE))
        txt == InputDataFile(DOMAIN d1, output_file)
        d2 == WriteFile(d1, txt, Content(None, TRUE))
        sh == BatchScript(DOMAIN d2, batch_name)
        d3 == WriteFile(d2, sh, Content(None, TRUE))
        rm == BatchScriptRemoved(sh)
        d4 == IF rm \in DOMAIN d3 THEN RemoveFile(d3, rm) ELSE d3
    IN  [disk |-> d4,
         written |-> <<abi, txt, sh>>,
         clobbered |-> {abi, txt, sh} \cap DOMAIN d,
         output |-> OutputFile(output_file)]

\* the name the sweep gives point i (0-based) before dispatching it
PointFileName(files, file_name, i) ==
    GetUniqueFilename(files, Name(Join(file_name, Str(i)), <<>>)).stem

\* One iteration of the submission loop of calculate_<suffix>_of_
\* perturbations for point sw_i: rename, run_<suffix>_calculation with
\* sbatch accepting or rejecting the job, and the append of the object's
\* latest job to the sweep's running_jobs (IndexError if it has none).
DispatchPoint(suffix, accepted, next_pc, next_i) ==
    LET o == perturbed_objects[sw_i]
        fn == PointFileName(DOMAIN disk, o.file_name, sw_i - 1)
        fd == FilesOfDispatch(disk, Join(fn, suffix), Join(fn, "bscript"))
        jobs == IF accepted THEN Append(o.running_jobs, NextJob)
                ELSE o.running_jobs
        o2 == [o EXCEPT !.file_name = fn, !.running_jobs = jobs]
    IN  /\ disk' = fd.disk
        /\ overwritten' = overwritten \cup fd.clobbered
        /\ IF accepted
           THEN /\ sched' = [j \in DOMAIN sched \cup {NextJob} |->
                                IF j = NextJob THEN "pending" ELSE sched[j]]
                /\ sched_out' = [j \in DOMAIN sched \cup {NextJob} |->
                                IF j = NextJob THEN fd.output
                                ELSE sched_out[j]]
           ELSE UNCHANGED <<sched, sched_out>>
        /\ perturbed_objects' = [perturbed_objects EXCEPT ![sw_i] = o2]
        /\ list_abi_files' = Append(list_abi_files, Name(fn, <<".abi">>))
        /\ sw_jobof' = Append(sw_jobof, IF accepted THEN NextJob ELSE None)
        /\ IF jobs = <<>>
           THEN /\ sw_pc' = "raised"
                /\ sw_err' = "IndexError"
                /\ UNCHANGED <<running_jobs, sw_i, wait_log>>
           ELSE /\ running_jobs' = Append(running_jobs, jobs[Len(jobs)])
                /\ sw_pc' = next_pc
                /\ sw_i' = next_i
                /\ sw_err' = sw_err
                /\ wait_log' = IF next_pc = "wait"
                               THEN Append(wait_log, Len(sw_jobof) + 1)
                               ELSE wait_log
        /\ UNCHANGED <<stVars, ccVars, anVars, swCfg, list_amps, list_energies,
                       list_piezo_tensors_clamped,
                       list_piezo_tensors_relaxed, list_flexo_tensors,
                       sw_k, sw_run, sw_failed>>

\* a call of calculate_<kind>_of_perturbations on the generated object, or
\* again on an object whose earlier call has returned
CallCalculate ==
    /\ \/ sw_pc = "generated" /\ sw_run' = sw_run
       \/ sw_pc = "done" /\ sw_run < MaxRuns /\ sw_run' = sw_run + 1
    /\ sw_pc' = "loop"
    /\ sw_i' = 1
    /\ sw_k' = 1
    /\ wait_log' = <<>>
    /\ sw_jobof' = <<>>
    /\ sw_failed' = {}
    /\ UNCHANGED <<stVars, ccVars, anVars, swCfg, swLists, sw_err, overwritten, envVars>>

\* calculate_energy_of_perturbations, submission loop
DispatchEnergy ==
    /\ kind = "energy"
    /\ sw_pc = "loop"
    /\ sw_i <= Len(perturbed_objects)
    /\ \E accepted \in BOOLEAN :
           DispatchPoint("energy", accepted, "loop", sw_i + 1)

\* calculate_flexo_of_perturbations, submission loop
DispatchFlexo ==
    /\ kind = "flexo"
    /\ sw_pc = "loop"
    /\ sw_i <= Len(perturbed_objects)
    /\ \E accepted \in BOOLEAN :
           DispatchPoint("flexo", accepted, "loop", sw_i + 1)

\* calculate_piezo_of_perturbations, loop body up to its call of
\* wait_for_jobs_to_finish, which is inside the loop
DispatchPiezo ==
    /\ kind = "piezo"
    /\ sw_pc = "loop"
    /\ sw_i <= Len(perturbed_objects)
    /\ \E accepted \in BOOLEAN :
           DispatchPoint("piezo", accepted, "wait", sw_i)

\* the submission loop is exhausted: energy and flexo sweeps call
\* wait_for_jobs_to_finish, a piezo sweep returns
LoopExit ==
    /\ sw_pc = "loop"
    /\ sw_i > Len(perturbed_objects)
    /\ IF kind = "piezo"
       THEN /\ sw_pc' = "done"
            /\ wait_log' = wait_log
       ELSE /\ sw_pc' = "wait"
            /\ wait_log' = Append(wait_log, Len(sw_jobof))
    /\ UNCHANGED <<stVars, ccVars, anVars, swCfg, swLists, sw_i, sw_k, sw_err, sw_run, sw_jobof,
                   overwritten, sw_failed, envVars>>

\* wait_for_jobs_to_finish returns once every job of running_jobs is done
WaitForJobsToFinish ==
    /\ sw_pc = "wait"
    /\ \A j \in Range(running_jobs) : sched[j] = "done"
    /\ sw_pc' = "parse"
    /\ sw_k' = 1
    /\ UNCHANGED <<stVars, ccVars, anVars, swCfg, swLists, sw_i, sw_err, swHist, envVars>>

\* the scheduler completes a job; the solver leaves an output with the
\* markers, one without them, or none
JobFinish ==
    \E j \in DOMAIN sched, outcome \in {"ok", "nomarker", "nofile"} :
        /\ sched[j] = "pending"
        /\ sched' = [sched EXCEPT ![j] = "done"]
        /\ disk' = IF outcome = "nofile" THEN disk
                   ELSE WriteFile(disk, sched_out[j],
                                  Content(j, outcome = "ok"))
        /\ UNCHANGED <<swVars, stVars, ccVars, anVars, sched_out>>

\* ------------------------------------------------------------------------
\* Output parsing: AbinitFile.grab_energy, AbinitFile.grab_piezo_tensor
\* ------------------------------------------------------------------------
\* whether the file is there and holds the marker searched for
Parses(d, abo_file) ==
    abo_file \in DOMAIN d /\ d[abo_file].ok

\* grab_energy(abo_file): energy is assigned only when the pattern matches
GrabEnergy(d, o, abo_file) ==
    IF Parses(d, abo_file)
    THEN [o EXCEPT !.energy = d[abo_file].job]
    ELSE o

\* the file grab_piezo_tensor reads when called without a file
DefaultPiezoFile(o) ==
    Name(Join(o.file_name, "energy"), <<".abo">>)

\* grab_piezo_tensor(): both tensors are assigned, None unless extracted
GrabPiezoTensor(d, o) ==
    LET f == DefaultPiezoFile(o)
        t == IF Parses(d, f) THEN d[f].job ELSE None
    IN  [o EXCEPT !.piezo_tensor_clamped = t, !.piezo_tensor_relaxed = t]

\* calculate_energy_of_perturbations, extraction loop, object sw_k
ParseEnergy ==
    /\ kind = "energy"
    /\ sw_pc = "parse"
    /\ sw_k <= Len(perturbed_objects)
    /\ LET o == perturbed_objects[sw_k]
           f == Name(Join(o.file_name, "energy"), <<".abo">>)
           o2 == GrabEnergy(disk, o, f)
       IN  /\ perturbed_objects' = [perturbed_objects EXCEPT ![sw_k] = o2]
           /\ list_energies' = Append(list_energies, o2.energy)
           /\ sw_failed' = IF Parses(disk, f) /\ disk[f].job = sw_jobof[sw_k]
                           THEN sw_failed
                           ELSE sw_failed \cup {sw_k}
    /\ sw_k' = sw_k + 1
    /\ UNCHANGED <<stVars, ccVars, anVars, swCfg, list_amps, list_abi_files,
                   list_piezo_tensors_clamped, list_piezo_tensors_relaxed,
                   list_flexo_tensors, running_jobs, sw_pc, sw_i, sw_err,
                   sw_run, wait_log, sw_jobof, overwritten, envVars>>

\* calculate_piezo_of_perturbations, extraction loop, object sw_k
ParsePiezo ==
    /\ kind = "piezo"
    /\ sw_pc = "parse"
    /\ sw_k <= Len(perturbed_objects)
    /\ LET o == perturbed_objects[sw_k]
           o2 == GrabPiezoTensor(disk, o)
       IN  /\ perturbed_objects' = [perturbed_objects EXCEPT ![sw_k] = o2]
           /\ list_energies' = Append(list_energies, o2.energy)
           /\ list_piezo_tensors_clamped' =
                  Append(list_piezo_tensors_clamped, o2.piezo_tensor_clamped)
           /\ list_piezo_tensors_relaxed' =
                  Append(list_piezo_tensors_relaxed, o2.piezo_tensor_relaxed)
           /\ sw_failed' = IF Parses(disk, DefaultPiezoFile(o)) THEN sw_failed
                           ELSE sw_failed \cup {sw_k}
    /\ sw_k' = sw_k + 1
    /\ UNCHANGED <<stVars, ccVars, anVars, swCfg, list_amps, list_abi_files, list_flexo_tensors,
                   running_jobs, sw_pc, sw_i, sw_err, sw_run, wait_log,
                   sw_jobof, overwritten, envVars>>

\* calculate_flexo_of_perturbations, extraction loop: grab_energy is called
\* without its required abo_file argument
ParseFlexo ==
    /\ kind = "flexo"
    /\ sw_pc = "parse"
    /\ sw_k <= Len(perturbed_objects)
    /\ sw_pc' = "raised"
    /\ sw_err' = "TypeError"
    /\ UNCHANGED <<stVars, ccVars, anVars, swCfg, swLists, sw_i, sw_k, swHist, envVars>>

\* the extraction loop is exhausted: energy and flexo sweeps return, a
\* piezo sweep goes on with the next point of its submission loop
ParseExit ==
    /\ sw_pc = "parse"
    /\ sw_k > Len(perturbed_objects)
    /\ IF kind = "piezo"
       THEN /\ sw_pc' = "loop"
            /\ sw_i' = sw_i + 1
       ELSE /\ sw_pc' = "done"
            /\ sw_i' = sw_i
    /\ UNCHANGED <<stVars, ccVars, anVars, swCfg, swLists, sw_k, sw_err, swHist, envVars>>

\* the sweep is run again by a new process in the same working directory
NewProcess ==
    /\ sw_pc \in {"done", "raised"}
    /\ sw_run < MaxRuns
    /\ list_amps' = <<>>
    /\ perturbed_objects' = <<>>
    /\ list_abi_files' = <<>>
    /\ list_energies' = <<>>
    /\ list_piezo_tensors_clamped' = <<>>
    /\ list_piezo_tensors_relaxed' = <<>>
    /\ list_flexo_tensors' = <<>>
    /\ running_jobs' = <<>>
    /\ sw_pc' = "new"
    /\ sw_i' = 1
    /\ sw_k' = 1
    /\ sw_err' = "none"
    /\ sw_run' = sw_run + 1
    /\ wait_log' = <<>>
    /\ sw_jobof' = <<>>
    /\ sw_failed' = {}
    /\ UNCHANGED <<stVars, ccVars, anVars, swCfg, overwritten, envVars>>

\* ------------------------------------------------------------------------
\* Stability stage: SmodesProcessor._loop_modes, _perform_calculations,
\* symmadapt.  The structure is one coordinate of one atom in a cell of
\* lattice constant Lattice; it is held in reduced coordinates.
\* ------------------------------------------------------------------------
\* the cell's lattice constant, 3.0
Lattice ==
    FromInt(3)

\* reduced -> cartesian and back, in floating point
ToCart(r) ==
    FMul(r, Lattice)

ToRed(c) ==
    FDiv(c, Lattice)

GrabReducedCoordinates(x) ==
    x

GrabCartesianCoordinates(x) ==
    ToCart(x)

\* change_coordinates(new_coordinates, coords_are_cartesian)
ChangeCoordinates(x, new_coordinates, coords_are_cartesian) ==
    IF coords_are_cartesian THEN ToRed(new_coordinates) ELSE new_coordinates

\* the literal 1.88973 of _loop_modes as a float
Bohr ==
    RoundQ(188973 * Pow2(FracBits), 100000)

\* dist_mat[j - 1], the displacement pattern of mode j: 1, -1/2, 1, ...
DistMat(j) ==
    IF j % 2 = 1 THEN Pow2(FracBits) ELSE -Pow2(FracBits - 1)

\* 1.88973 * self.disp_mag * self.dist_mat[i] for mode j = i + 1
Displacement(mag, j) ==
    FMul(FMul(Bohr, mag), DistMat(j))

\* the structure distorted along mode j
Perturbation(x, mag, j) ==
    FAdd(GrabCartesianCoordinates(x), Displacement(mag, j))

\* a loop body that leaves the distorted structure in place
NotRestored(x, saved) ==
    x

\* change_coordinates(np.array(original_coords).copy(), False)
Restored(x, saved) ==
    ChangeCoordinates(x, saved, FALSE)

\* a loop over range(num_sam - 1)
LoopModesDoneEarly ==
    st_j > num_sam - 1

\* for i in range(self.num_sam) is exhausted (st_j is j = i + 1)
LoopModesDone ==
    st_j > num_sam

\* SmodesProcessor.__init__ for n modes, a displacement magnitude and a
\* structure at reduced coordinate x
InitSmodes(n, mag, x) ==
    /\ num_sam = n
    /\ disp_mag = mag
    /\ jobs_ran_abo = <<>>
    /\ xred = x
    /\ slurm_jobs = <<>>
    /\ force_mat_raw = <<>>
    /\ st_pc = "idle"
    /\ st_j = 1
    /\ st_k = 1
    /\ st_err = "none"
    /\ original_coords = x
    /\ st_calls = 0
    /\ st_wait_log = <<>>
    /\ st_waited = 0
    /\ st_read = 0
    /\ st_inputs = <<>>

\* write_custom_abifile(dist_j) and run_abinit(dist_j, dist_j_sbatch) of
\* the structure in its current state, sbatch accepting the job or not
DispatchDistortion(j, x, accepted) ==
    LET abi_name == Join(<<"dist">>, Str(j))
        fd == FilesOfDispatch(disk, abi_name, Join(abi_name, "sbatch"))
    IN  /\ disk' = fd.disk
        /\ overwritten' = overwritten \cup fd.clobbered
        /\ IF accepted
           THEN /\ sched' = [n \in DOMAIN sched \cup {NextJob} |->
                                IF n = NextJob THEN "pending" ELSE sched[n]]
                /\ sched_out' = [n \in DOMAIN sched \cup {NextJob} |->
                                IF n = NextJob THEN fd.output
                                ELSE sched_out[n]]
                /\ slurm_jobs' = Append(slurm_jobs, NextJob)
           ELSE UNCHANGED <<sched, sched_out, slurm_jobs>>
        /\ st_inputs' = Append(st_inputs, x)
        /\ jobs_ran_abo' = Append(jobs_ran_abo, OutputFile(abi_name))

\* a call of symmadapt, the first or a further one on the same object
Symmadapt ==
    /\ st_pc \in {"idle", "returned"}
    /\ st_calls < MaxRuns
    /\ st_pc' = "start"
    /\ st_calls' = st_calls + 1
    /\ st_wait_log' = <<>>
    /\ st_waited' = 0
    /\ st_read' = 0
    /\ st_inputs' = <<>>
    /\ UNCHANGED <<stCfg, stData, st_j, st_k, st_err, original_coords,
                   swVars, ccVars, anVars, envVars>>

\* _loop_modes up to its loop: the coordinates are saved and the reference
\* job dist_0 is dispatched
LoopModesReference ==
    /\ st_pc = "start"
    /\ original_coords' = GrabReducedCoordinates(xred)
    /\ \E accepted \in BOOLEAN : DispatchDistortion(0, xred, accepted)
    /\ st_j' = 1
    /\ st_pc' = "loop"
    /\ UNCHANGED <<stCfg, xred, force_mat_raw, st_k, st_err, st_calls,
                   st_wait_log, st_waited, st_read, swOwn, ccVars, anVars>>

\* one iteration of the loop of _loop_modes: distort, dispatch, restore
LoopModesDistortion ==
    /\ st_pc = "loop"
    /\ ~LoopModesDone
    /\ LET distorted == ChangeCoordinates(xred,
                            Perturbation(xred, disp_mag, st_j), TRUE)
       IN  /\ \E accepted \in BOOLEAN :
                  DispatchDistortion(st_j, distorted, accepted)
           /\ xred' = Restored(distorted, original_coords)
    /\ st_j' = st_j + 1
    /\ UNCHANGED <<stCfg, force_mat_raw, st_pc, st_k, st_err,
                   original_coords, st_calls, st_wait_log, st_waited,
                   st_read, swOwn, ccVars, anVars>>

\* an iteration of the loop of _loop_modes in which open() in
\* write_custom_abifile or subprocess.run in run_abinit raises OSError:
\* the structure has been distorted, the exception leaves _loop_modes
\* through the loop body, which has no handler
LoopModesDistortionRaises ==
    /\ st_pc = "loop"
    /\ ~LoopModesDone
    /\ xred' = ChangeCoordinates(xred,
                    Perturbation(xred, disp_mag, st_j), TRUE)
    /\ \E stage \in {"write", "submit"} :
           LET abi_name == Join(<<"dist">>, Str(st_j))
               fd == FilesOfDispatch(disk, abi_name,
                                     Join(abi_name, "sbatch"))
           IN  /\ disk' = IF stage = "write" THEN disk ELSE fd.disk
               /\ overwritten' = IF stage = "write" THEN overwritten
                                 ELSE overwritten \cup fd.clobbered
    /\ st_pc' = "loop_raised"
    /\ st_err' = "OSError"
    /\ UNCHANGED <<stCfg, jobs_ran_abo, slurm_jobs, force_mat_raw, st_j,
                   st_k, original_coords, stHist, sched, sched_out, swOwn,
                   ccVars, anVars>>

\* the loop is exhausted: _loop_modes calls wait_for_jobs_to_finish
LoopModesWait ==
    /\ st_pc = "loop"
    /\ LoopModesDone
    /\ st_pc' = "wait"
    /\ st_wait_log' = Append(st_wait_log, Len(st_inputs))
    /\ UNCHANGED <<stCfg, stData, st_j, st_k, st_err, original_coords,
                   st_calls, st_waited, st_read, st_inputs, swVars, ccVars, anVars,
                   envVars>>

\* wait_for_jobs_to_finish returns once every job of the slurm_obj is
\* done; _loop_modes returns and _perform_calculations allocates
\* force_mat_raw with num_sam + 1 rows
SlurmWaitReturns ==
    /\ st_pc = "wait"
    /\ \A j \in Range(slurm_jobs) : sched[j] = "done"
    /\ st_waited' = st_waited + 1
    /\ force_mat_raw' = [s \in 1..(num_sam + 1) |-> None]
    /\ st_k' = 1
    /\ st_pc' = "calc"
    /\ UNCHANGED <<stCfg, jobs_ran_abo, xred, slurm_jobs, st_j, st_err,
                   original_coords, st_calls, st_wait_log, st_read,
                   st_inputs, swVars, ccVars, anVars, envVars>>

\* the value read in place of a force from a file without the marker
Garbage ==
    -1

\* _perform_calculations, one iteration of its loop over jobs_ran_abo: the
\* file is opened, the forces that follow the marker are stored in row
\* st_k of force_mat_raw.  Without the marker the lines at the top of the
\* file are read instead, which fails or yields arbitrary numbers.
ReadForces ==
    /\ st_pc = "calc"
    /\ st_k <= Len(jobs_ran_abo)
    /\ LET abo == jobs_ran_abo[st_k]
           found == abo \in DOMAIN disk
       IN  /\ st_read' = IF found THEN st_read + 1 ELSE st_read
           /\ \E unmarked \in {"ValueError", "IndexError", "read"} :
                  LET err == IF ~found THEN "FileNotFoundError"
                             ELSE IF ~disk[abo].ok /\ unmarked # "read"
                             THEN unmarked
                             ELSE IF st_k > num_sam + 1 THEN "IndexError"
                             ELSE "none"
                      forces == IF found /\ disk[abo].ok THEN disk[abo].job
                                ELSE Garbage
                  IN  IF err # "none"
                      THEN /\ st_pc' = "raised"
                           /\ st_err' = err
                           /\ UNCHANGED <<force_mat_raw, st_k>>
                      ELSE /\ force_mat_raw' =
                                  [force_mat_raw EXCEPT ![st_k] = forces]
                           /\ st_k' = st_k + 1
                           /\ UNCHANGED <<st_pc, st_err>>
    /\ UNCHANGED <<stCfg, jobs_ran_abo, xred, slurm_jobs, st_j,
                   original_coords, st_calls, st_wait_log, st_waited,
                   st_inputs, swVars, ccVars, anVars, envVars>>

\* every output has been read: _perform_calculations and symmadapt return
SymmadaptReturns ==
    /\ st_pc = "calc"
    /\ st_k > Len(jobs_ran_abo)
    /\ st_pc' = "returned"
    /\ UNCHANGED <<stCfg, stData, st_j, st_k, st_err, original_coords,
                   stHist, swVars, ccVars, anVars, envVars>>

\* ------------------------------------------------------------------------
\* Two sweeps running concurrently in one working directory.  Each process
\* dispatches its points as calculate_energy_of_perturbations does; every
\* existence check and every file write is a step of its own, so that steps
\* of the other process may fall between them.
\* ------------------------------------------------------------------------
Procs ==
    {"A", "B"}

InitConc(pc0) ==
    /\ cc_pc = [p \in Procs |-> pc0]
    /\ cc_i = [p \in Procs |-> 1]
    /\ cc_fn = [p \in Procs |-> BaseFileName]
    /\ cc_name = [p \in Procs |-> Name(<<>>, <<>>)]
    /\ cc_written = [p \in Procs |-> {}]

\* process p moves to position pc
Goto(p, pc) ==
    cc_pc' = [cc_pc EXCEPT ![p] = pc]

\* process p writes the file whose name its last check returned
WriteAllocated(p) ==
    /\ disk' = WriteFile(disk, cc_name[p], Content(None, TRUE))
    /\ cc_written' = [cc_written EXCEPT ![p] = @ \cup {cc_name[p]}]
    /\ overwritten' = IF cc_name[p] \in DOMAIN disk
                      THEN overwritten \cup {cc_name[p]}
                      ELSE overwritten

\* the sweep names the structure of its point cc_i[p]
RenamePoint(p) ==
    /\ cc_pc[p] = "rename"
    /\ cc_fn' = [cc_fn EXCEPT ![p] =
                    PointFileName(DOMAIN disk, BaseFileName, cc_i[p] - 1)]
    /\ Goto(p, "abi_check")
    /\ UNCHANGED <<cc_i, cc_name, cc_written, swVars, stVars, anVars, envVars>>

\* write_custom_abifile: the existence check of _get_unique_filename
AllocateAbiName(p) ==
    /\ cc_pc[p] = "abi_check"
    /\ cc_name' = [cc_name EXCEPT ![p] =
                      AbiFileWritten(DOMAIN disk, Join(cc_fn[p], "energy"))]
    /\ Goto(p, "abi_write")
    /\ UNCHANGED <<cc_i, cc_fn, cc_written, swVars, stVars, anVars, envVars>>

\* write_custom_abifile: open(f"{output_file}.abi", "w")
WriteAbiFile(p) ==
    /\ cc_pc[p] = "abi_write"
    /\ WriteAllocated(p)
    /\ Goto(p, "txt_check")
    /\ UNCHANGED <<cc_i, cc_fn, cc_name, swOwn, stVars, anVars, sched, sched_out>>

\* run_abinit: the existence check for the data file
AllocateDataName(p) ==
    /\ cc_pc[p] = "txt_check"
    /\ cc_name' = [cc_name EXCEPT ![p] =
                      InputDataFile(DOMAIN disk, Join(cc_fn[p], "energy"))]
    /\ Goto(p, "txt_write")
    /\ UNCHANGED <<cc_i, cc_fn, cc_written, swVars, stVars, anVars, envVars>>

\* run_abinit: open(file_path, "w")
WriteDataFile(p) ==
    /\ cc_pc[p] = "txt_write"
    /\ WriteAllocated(p)
    /\ Goto(p, "sh_check")
    /\ UNCHANGED <<cc_i, cc_fn, cc_name, swOwn, stVars, anVars, sched, sched_out>>

\* run_abinit: the existence check for the batch script
AllocateBatchName(p) ==
    /\ cc_pc[p] = "sh_check"
    /\ cc_name' = [cc_name EXCEPT ![p] =
                      BatchScript(DOMAIN disk, Join(cc_fn[p], "bscript"))]
    /\ Goto(p, "sh_write")
    /\ UNCHANGED <<cc_i, cc_fn, cc_written, swVars, stVars, anVars, envVars>>

\* run_abinit: write_batch_script
WriteBatchScript(p) ==
    /\ cc_pc[p] = "sh_write"
    /\ WriteAllocated(p)
    /\ Goto(p, "submit")
    /\ UNCHANGED <<cc_i, cc_fn, cc_name, swOwn, stVars, anVars, sched, sched_out>>

\* run_abinit: sbatch, then the finally clause; the sweep goes on with its
\* next point or is through with its submissions
SubmitBatch(p) ==
    /\ cc_pc[p] = "submit"
    /\ \E accepted \in BOOLEAN :
           IF accepted
           THEN /\ sched' = [n \in DOMAIN sched \cup {NextJob} |->
                                IF n = NextJob THEN "pending" ELSE sched[n]]
                /\ sched_out' = [n \in DOMAIN sched \cup {NextJob} |->
                                IF n = NextJob
                                THEN OutputFile(Join(cc_fn[p], "energy"))
                                ELSE sched_out[n]]
           ELSE UNCHANGED <<sched, sched_out>>
    /\ LET rm == BatchScriptRemoved(cc_name[p])
       IN  disk' = IF rm \in DOMAIN disk THEN RemoveFile(disk, rm) ELSE disk
    /\ cc_i' = [cc_i EXCEPT ![p] = @ + 1]
    /\ Goto(p, IF cc_i[p] < ConcPoints THEN "rename" ELSE "submitted")
    /\ UNCHANGED <<cc_fn, cc_name, cc_written, swVars, stVars, anVars>>

\* ------------------------------------------------------------------------
\* Mode analysis: the part of SmodesProcessor._perform_calculations that
\* follows the diagonalization, _imaginary_frequencies, unstable_phonons,
\* and ElectroTensorProgram.run_program.  A displacement field is the
\* sequence of its 3 * natom components.
\* ------------------------------------------------------------------------
\* the largest r in lo..hi with r * r <= n
RECURSIVE SqrtFloor(_, _, _)
SqrtFloor(n, lo, hi) ==
    IF lo >= hi THEN lo
    ELSE LET mid == (lo + hi + 1) \div 2
         IN  IF mid * mid <= n THEN SqrtFloor(n, mid, hi)
             ELSE SqrtFloor(n, lo, mid - 1)

\* np.sqrt of a float x >= 0, correctly rounded
FSqrt(x) ==
    LET n == x * Pow2(FracBits) * 16
        r == SqrtFloor(n, 0, 46340)
    IN  RoundQ(2 * r + (IF r * r = n THEN 0 ELSE 1), 8)

\* np.sum(v ** 2)
RECURSIVE SumSquares(_, _)
SumSquares(v, c) ==
    IF c = 0 THEN 0 ELSE FAdd(SumSquares(v, c - 1), FMul(v[c], v[c]))

\* np.linalg.norm(flattened)
Norm(v) ==
    FSqrt(SumSquares(v, Len(v)))

\* flattened / norm_val, reshaped
Normalized(v) ==
    [c \in 1..Len(v) |-> FDiv(v[c], Norm(v))]

\* Python's False and a Python list as values of one shape
PyFalse ==
    [false |-> TRUE, items |-> <<>>]

PyList(items) ==
    [false |-> FALSE, items |-> items]

\* "not x" for False or a list
Not(x) ==
    x.false \/ x.items = <<>>

\* 2 * np.pi
TwoPi ==
    RoundQ(710 * Pow2(FracBits), 113)

\* freq_thz * 1.0e12 / c with c = 2.9979458e10, both scaled by 1e-10
ThzToCm(f) ==
    FDiv(FMul(f, FromInt(100)), RoundQ(29979 * Pow2(FracBits), 10000))

Reverse(s) ==
    [k \in 1..Len(s) |-> s[Len(s) + 1 - k]]

\* np.argsort(f): a permutation that puts f in ascending order; the default
\* sort is not stable, so equal entries come in either order
ArgSort(f) ==
    { p \in Permutations(1..Len(f)) :
          \A i, j \in 1..Len(f) : i < j => f[p[i]] <= f[p[j]] }

\* np.argsort(f)[::-1] alone
FlippedOnce(p) ==
    Reverse(p)

\* np.flip(np.argsort(f)[::-1]) for the argsort result p
IdxDyn(p) ==
    Reverse(Reverse(p))

\* the displacement pattern of symmetry mode s: the unit field along
\* component s
UnitField(s, n) ==
    [c \in 1..n |-> IF c = s THEN Pow2(FracBits) ELSE 0]

\* eigenvector matrices np.linalg.eig may return for m modes: the identity
\* and, for m >= 2, a rotation of the first two modes by (3/5, 4/5)
EigenBases(m) ==
    LET c == RoundQ(3 * Pow2(FracBits), 5)
        d == RoundQ(4 * Pow2(FracBits), 5)
        id == [s \in 1..m |-> [e \in 1..m |->
                  IF s = e THEN Pow2(FracBits) ELSE 0]]
        rot == [s \in 1..m |-> [e \in 1..m |->
                  IF s > 2 \/ e > 2 THEN id[s][e]
                  ELSE IF s = e THEN c
                  ELSE IF s = 1 THEN -d ELSE d]]
    IN  IF m >= 2 THEN {id, rot} ELSE {id}

\* the values of sign(dynevals) * sqrt(|dynevals| * ...) * 1e-12 drawn
Freqs ==
    { -Pow2(FracBits), -Pow2(FracBits - 1), Pow2(FracBits - 1) }

\* the thresholds drawn: the frequency of a mode of -1/2, -20 and -1
Thresholds ==
    { ThzToCm(FDiv(-Pow2(FracBits - 1), TwoPi)), FromInt(-20), FromInt(-1) }

\* stabilize_matrix is not called
InitStabilizeOff ==
    /\ matrix = <<>>
    /\ threshold = 50000
    /\ epsilon = 0
    /\ alpha = 0
    /\ sb_arg = <<>>
    /\ sb_local = <<>>
    /\ sb_i = 1
    /\ sb_pc = "off"
    /\ sb_result = <<>>

\* no force constants have been computed
InitForcesOff ==
    /\ InitStabilizeOff
    /\ sam_atom_label = <<>>
    /\ type_list = <<>>
    /\ force_matrix = <<>>
    /\ mass_vector = <<>>
    /\ fc_mat = <<>>
    /\ springs_constants_matrix = <<>>
    /\ dyn_mat = <<>>
    /\ fc_warnings = <<>>

\* the analysis is not running
InitAnalysisOff ==
    /\ InitForcesOff
    /\ natom = 1
    /\ dist_mat = <<>>
    /\ mass_list = <<>>
    /\ unstable_threshold = FromInt(-20)
    /\ dynevecs_sam = <<>>
    /\ freq_thz = <<>>
    /\ idx_dyn = <<>>
    /\ freq_cm = <<>>
    /\ red_mass = <<>>
    /\ phonon_vecs = <<>>
    /\ negative_indices = PyFalse
    /\ normalized_phonon_vecs = PyFalse
    /\ pg_perturbations = <<>>
    /\ pg_jobs = 0
    /\ cls_calls = 0
    /\ an_pc = "off"
    /\ an_err = "none"

\* _perform_calculations has diagonalized dyn_mat of m modes and computed
\* freq_thz (line 255)
InitDiagonalized(m, atoms, mass, thr, f, vecs) ==
    /\ InitForcesOff
    /\ natom = atoms
    /\ dist_mat = [s \in 1..m |-> UnitField(s, 3 * atoms)]
    /\ mass_list = <<mass>>
    /\ unstable_threshold = thr
    /\ dynevecs_sam = vecs
    /\ freq_thz = f
    /\ idx_dyn = <<>>
    /\ freq_cm = <<>>
    /\ red_mass = <<>>
    /\ phonon_vecs = <<>>
    /\ negative_indices = PyFalse
    /\ normalized_phonon_vecs = PyFalse
    /\ pg_perturbations = <<>>
    /\ pg_jobs = 0
    /\ cls_calls = 0
    /\ an_pc = "diagonalized"
    /\ an_err = "none"

\* the columns of dynevecs_sam left in the order np.linalg.eig gave them
UnsortedColumn(idx, k) ==
    k

\* dynevecs_sam[:, idx_dyn], line 258: the column that becomes column k
SortedColumn(idx, k) ==
    idx[k]

\* _perform_calculations, lines 256-264: the modes are put in the order
\* idx_dyn, frequencies and eigenvector columns alike
SortModes ==
    /\ an_pc = "diagonalized"
    /\ \E p \in ArgSort(freq_thz) :
           LET idx == IdxDyn(p)
               thz == [k \in 1..Len(idx) |-> FDiv(freq_thz[idx[k]], TwoPi)]
           IN  /\ idx_dyn' = idx
               /\ freq_thz' = thz
               /\ dynevecs_sam' = [s \in 1..Len(dynevecs_sam) |->
                                      [k \in 1..Len(idx) |->
                                          dynevecs_sam[s][SortedColumn(idx,
                                                                       k)]]]
               /\ freq_cm' = [k \in 1..Len(idx) |-> ThzToCm(thz[k])]
    /\ an_pc' = "sorted"
    /\ UNCHANGED <<natom, dist_mat, mass_list, unstable_threshold, red_mass,
                   phonon_vecs, pgVars, an_err, fcVars, sbVars, clVars, gpVars, swVars, stVars, ccVars,
                   envVars>>

\* sum over s of dynevecs_sam[s, evec] * dist_mat[s], from mode 1 to s
RECURSIVE RealDynevec(_, _, _, _)
RealDynevec(vecs, dm, evec, s) ==
    IF s = 0 THEN [c \in 1..Len(dm[1]) |-> 0]
    ELSE LET acc == RealDynevec(vecs, dm, evec, s - 1)
         IN  [c \in 1..Len(dm[1]) |->
                 FAdd(acc[c], FMul(vecs[s][evec], dm[s][c]))]

\* dynevecs[mode] / mass_col for one species of the given mass
PhonDispEig(vecs, dm, mass, mode) ==
    LET v == RealDynevec(vecs, dm, mode, Len(dm))
    IN  [c \in 1..Len(v) |-> FDiv(v[c], FSqrt(mass))]

\* _perform_calculations, lines 266-301: the displacement field of every
\* mode, its reduced mass and its normalization; redmass_vec has natom
\* rows and is indexed by the mode
BuildPhononVecs ==
    /\ an_pc = "sorted"
    /\ IF num_sam > natom
       THEN /\ an_pc' = "raised"
            /\ an_err' = "IndexError"
            /\ UNCHANGED <<red_mass, phonon_vecs>>
       ELSE LET eigs == [mode \in 1..num_sam |->
                            PhonDispEig(dynevecs_sam, dist_mat,
                                        mass_list[1], mode)]
                mag == [mode \in 1..num_sam |->
                           SumSquares(eigs[mode], Len(eigs[mode]))]
            IN  /\ phonon_vecs' = [mode \in 1..num_sam |->
                       [c \in 1..Len(eigs[mode]) |->
                           FDiv(eigs[mode][c], FSqrt(mag[mode]))]]
                /\ red_mass' = [a \in 1..natom |->
                       IF a <= num_sam
                       THEN FDiv(Pow2(FracBits), mag[a]) ELSE 0]
                /\ an_pc' = "calculated"
                /\ an_err' = an_err
    /\ UNCHANGED <<mdIn, freq_thz, idx_dyn, freq_cm, pgVars, fcVars, sbVars, clVars, gpVars, swVars, stVars,
                   ccVars, envVars>>

\* fc_eval <= threshold as the test of instability
AtOrBelow(f, thr) ==
    f <= thr

\* the test of _imaginary_frequencies: fc_eval < self.unstable_threshold
Below(f, thr) ==
    f < thr

\* the 0-based indices k of f, in order, from index k on, that are Below
RECURSIVE IndicesBelow(_, _, _)
IndicesBelow(f, thr, k) ==
    IF k >= Len(f) THEN <<>>
    ELSE (IF Below(f[k + 1], thr) THEN <<k>> ELSE <<>>)
             \o IndicesBelow(f, thr, k + 1)

\* the list of an earlier call, kept
StoredList(previous) ==
    previous

\* line 307: negative_indices = [], a list local to the call
LocalList(previous) ==
    <<>>

\* SmodesProcessor._imaginary_frequencies
ImaginaryFrequencies(f, thr) ==
    LET indices == LocalList(negative_indices.items) \o IndicesBelow(f, thr, 0)
    IN  IF indices = <<>> THEN PyFalse ELSE PyList(indices)

\* SmodesProcessor.unstable_phonons, called by symmadapt and returning to
\* symmadapt's caller, or called again on the object by that caller
UnstablePhonons ==
    /\ an_pc \in {"calculated", "returned"}
    /\ cls_calls < MaxRuns
    /\ cls_calls' = cls_calls + 1
    /\ LET unstable == ImaginaryFrequencies(freq_cm, unstable_threshold)
       IN  /\ negative_indices' = unstable
           /\ normalized_phonon_vecs' =
                  IF unstable.false THEN PyFalse
                  ELSE PyList([m \in 1..Len(unstable.items) |->
                           Normalized(phonon_vecs[unstable.items[m] + 1])])
    /\ an_pc' = "returned"
    /\ UNCHANGED <<mdIn, mdOut, pg_perturbations, pg_jobs, an_err, fcVars, sbVars, clVars, gpVars, swVars,
                   stVars, ccVars, envVars>>

\* "not normalized_phonon_vecs" taken to hold of an empty list only
NoUnstableList(x) ==
    ~x.false /\ x.items = <<>>

\* run_program, line 86: if not normalized_phonon_vecs
NoUnstable(x) ==
    Not(x)

\* every sweep built from the first unstable mode
FirstDisplacement(i) ==
    normalized_phonon_vecs.items[1]

\* run_program, line 109: the pert that enumerate pairs with index i
SweepDisplacement(i) ==
    normalized_phonon_vecs.items[i]

\* run_program, lines 86-107, after its one call of symmadapt: nothing
\* more to do without unstable modes, otherwise the sweeps follow
RunProgramBranch ==
    /\ an_pc = "returned"
    /\ cls_calls = 1
    /\ IF NoUnstable(normalized_phonon_vecs)
       THEN an_pc' = "finished" /\ an_err' = an_err
       ELSE IF normalized_phonon_vecs.false
       THEN an_pc' = "raised" /\ an_err' = "TypeError"
       ELSE an_pc' = "sweeps" /\ an_err' = an_err
    /\ UNCHANGED <<mdIn, mdOut, pgVars, fcVars, sbVars, clVars, gpVars, swVars, stVars, ccVars, envVars>>

\* run_program, lines 109-141: one iteration of the loop over the unstable
\* modes: a Perturbations object is created for the mode, kept, and run,
\* which submits one job per amplitude point
RunProgramSweep ==
    /\ an_pc = "sweeps"
    /\ Len(pg_perturbations) < Len(normalized_phonon_vecs.items)
    /\ LET i == Len(pg_perturbations) + 1
       IN  pg_perturbations' = Append(pg_perturbations,
               [perturbation |-> SweepDisplacement(i),
                num_datapoints |-> num_datapoints,
                data_file |-> Name(<<"data", "file", Str(i - 1)>>,
                                   <<".txt">>)])
    /\ pg_jobs' = pg_jobs + num_datapoints
    /\ UNCHANGED <<mdIn, mdOut, negative_indices, normalized_phonon_vecs,
                   cls_calls, an_pc, an_err, fcVars, sbVars, clVars, gpVars, swVars, stVars, ccVars, envVars>>

\* run_program, lines 143-150: the loop is exhausted
RunProgramFinish ==
    /\ an_pc = "sweeps"
    /\ Len(pg_perturbations) >= Len(normalized_phonon_vecs.items)
    /\ an_pc' = "finished"
    /\ UNCHANGED <<mdIn, mdOut, pgVars, an_err, fcVars, sbVars, clVars, gpVars, swVars, stVars, ccVars,
                   envVars>>

\* ------------------------------------------------------------------------
\* SmodesProcessor._perform_calculations: the force constants.  A matrix
\* is a sequence of rows; a force sample and a distortion are fields of
\* 3 * natom components.
\* ------------------------------------------------------------------------
\* the modes of the claim's scenario, the most modes drawn
ForceModes == 3

\* np.linalg.cond(...) > 1e5, above which a warning is issued
WarnCond == 100000

Max(S) ==
    CHOOSE x \in S : \A y \in S : y <= x

Min(S) ==
    CHOOSE x \in S : \A y \in S : x <= y

\* the largest power of two, from p on, that divides every entry of S
RECURSIVE CommonPow2(_, _)
CommonPow2(S, p) ==
    IF \A x \in S : x % (2 * p) = 0 THEN CommonPow2(S, 2 * p) ELSE p

IsDiagonal(A) ==
    \A i, j \in 1..Len(A) : i # j => A[i][j] = 0

\* whether the 2-norm condition number of A exceeds t, for a diagonal A
\* (the ratio of its largest to its smallest absolute entry) and for a 2x2
\* A of entries within a factor 2^7 of each other (sigma_max / sigma_min
\* from sigma_max^2 + sigma_min^2 = |A|_F^2 and sigma_max * sigma_min =
\* |det A|); both outcomes where the model does not compute it.  A singular
\* matrix has an infinite condition number.
CondExceeds(A, t) ==
    LET n == Len(A)
        entries == { Abs(A[i][j]) : i, j \in 1..n }
    IN  IF IsDiagonal(A)
        THEN LET diag == { Abs(A[i][i]) : i \in 1..n }
                 hi == Max(diag)
                 lo == Min(diag)
             IN  { lo = 0 \/ hi \div lo > t
                     \/ (hi \div lo = t /\ hi % lo > 0) }
        ELSE LET g == CommonPow2(entries, 1)
                 B == [i \in 1..n |-> [j \in 1..n |-> A[i][j] \div g]]
             IN  IF n = 2 /\ Max(entries) \div g <= Pow2(7)
                 THEN LET T == B[1][1] * B[1][1] + B[1][2] * B[1][2]
                               + B[2][1] * B[2][1] + B[2][2] * B[2][2]
                          d == Abs(B[1][1] * B[2][2] - B[1][2] * B[2][1])
                      IN  { d = 0 \/ T \div d > t
                              \/ (T \div d = t /\ (T % d) * t > d) }
                 ELSE BOOLEAN

\* the row of force_mat_raw that holds a mode's sample, taken to be the
\* row of the mode's own index
ModeRow(sam) ==
    sam

\* force_mat_raw[sam + 1]: row 0 is the reference, here row 1
SampleRow(sam) ==
    sam + 1

\* force_list, lines 183-192
ForceList(raw) ==
    [sam \in 1..num_sam |->
        [c \in 1..Len(raw[1]) |-> FSub(raw[SampleRow(sam)][c], raw[1][c])]]

\* the sum of u[k] * v[k] over the first c components
RECURSIVE Dot(_, _, _)
Dot(u, v, c) ==
    IF c = 0 THEN 0 ELSE FAdd(Dot(u, v, c - 1), FMul(u[c], v[c]))

\* np.tensordot(force_list, dist_mat, axes=([1, 2], [1, 2]))
TensorDot(fl, dm) ==
    [i \in 1..Len(fl) |-> [j \in 1..Len(dm) |-> Dot(fl[i], dm[j], Len(fl[i]))]]

\* _perform_calculations, lines 183-198
ProjectForces ==
    /\ an_pc = "forces"
    /\ force_matrix' = TensorDot(ForceList(force_mat_raw), dist_mat)
    /\ an_pc' = "projected"
    /\ UNCHANGED <<mdIn, mdOut, pgVars, fcIn, mass_vector, fc_mat,
                   springs_constants_matrix, dyn_mat, fc_warnings, an_err,
                   sbVars, clVars, gpVars, swVars, stVars, ccVars, envVars>>

\* this_mass after the loop over the first n species: the mass of the
\* last species whose name is the label, 0 without one
RECURSIVE ThisMass(_, _, _, _)
ThisMass(label, types, masses, n) ==
    IF n = 0 THEN 0
    ELSE IF label = types[n] THEN masses[n]
    ELSE ThisMass(label, types, masses, n - 1)

\* no mass is ever taken to be missing
NeverMissing(this_mass) ==
    FALSE

\* line 207: if this_mass == 0
MassMissing(this_mass) ==
    this_mass = 0

\* _perform_calculations, lines 200-209: the mass of every mode, ValueError
\* at the first mode without one
BuildMassVector ==
    /\ an_pc = "projected"
    /\ LET mv == [m \in 1..num_sam |->
                     ThisMass(sam_atom_label[m], type_list, mass_list,
                              Len(type_list))]
       IN  IF \E m \in 1..num_sam : MassMissing(mv[m])
           THEN /\ an_pc' = "raised"
                /\ an_err' = "ValueError"
                /\ mass_vector' = mass_vector
           ELSE /\ an_pc' = "massed"
                /\ an_err' = an_err
                /\ mass_vector' = mv
    /\ UNCHANGED <<mdIn, mdOut, pgVars, fcIn, force_matrix, fc_mat,
                   springs_constants_matrix, dyn_mat, fc_warnings, sbVars, clVars, gpVars, swVars,
                   stVars, ccVars, envVars>>

\* the matrix left as it is
NotSymmetrized(A) ==
    A

\* line 216: (fc_mat + fc_mat.T) / 2.0
Symmetrized(A) ==
    [i \in 1..Len(A) |-> [j \in 1..Len(A) |->
        FDiv(FAdd(A[i][j], A[j][i]), FromInt(2))]]

\* _perform_calculations, lines 211-227: the force constants, symmetrized
\* and stored, a warning when they are ill-conditioned
BuildForceConstants ==
    /\ an_pc = "massed"
    /\ LET fc == [i \in 1..num_sam |-> [j \in 1..num_sam |->
                     FDiv(-force_matrix[i][j], disp_mag)]]
           sym == Symmetrized(fc)
       IN  /\ fc_mat' = fc
           /\ springs_constants_matrix' = sym
           /\ \E warn \in CondExceeds(sym, WarnCond) :
                  fc_warnings' = IF warn
                                 THEN Append(fc_warnings, "force constants")
                                 ELSE fc_warnings
    /\ an_pc' = "constants"
    /\ UNCHANGED <<mdIn, mdOut, pgVars, fcIn, force_matrix, mass_vector,
                   dyn_mat, an_err, sbVars, clVars, gpVars, swVars, stVars, ccVars, envVars>>

\* _perform_calculations, lines 229-238: the dynamical matrix from the
\* stored force constants and the outer product of sqrt(mass_vector), a
\* warning when it is ill-conditioned; np.linalg.eig follows
BuildDynMat ==
    /\ an_pc = "constants"
    /\ LET fc == springs_constants_matrix
           sq == [m \in 1..num_sam |-> FSqrt(mass_vector[m])]
           dm == [i \in 1..num_sam |-> [j \in 1..num_sam |->
                     FDiv(fc[i][j], FMul(sq[i], sq[j]))]]
       IN  /\ dyn_mat' = dm
           /\ \E warn \in CondExceeds(dm, WarnCond) :
                  fc_warnings' = IF warn
                                 THEN Append(fc_warnings, "dynamical")
                                 ELSE fc_warnings
    /\ an_pc' = "dynmat"
    /\ UNCHANGED <<mdIn, mdOut, pgVars, fcIn, force_matrix, mass_vector,
                   fc_mat, springs_constants_matrix, an_err, sbVars, clVars, gpVars, swVars, stVars,
                   ccVars, envVars>>

\* ------------------------------------------------------------------------
\* SmodesProcessor.stabilize_matrix
\* ------------------------------------------------------------------------
\* the largest matrix drawn
MatDim == 2

\* every condition number taken to exceed the threshold
AlwaysAbove(A, t) ==
    {TRUE}

\* line 318: if initial_cond_number > threshold
AboveThreshold(A, t) ==
    CondExceeds(A, t)

\* np.sum(np.abs(row)) over the first c entries
RECURSIVE SumAbs(_, _)
SumAbs(row, c) ==
    IF c = 0 THEN 0 ELSE FAdd(SumAbs(row, c - 1), Abs(row[c]))

\* lines 316-319: the condition number decides whether anything is done
StabilizeMatrix ==
    /\ sb_pc = "called"
    /\ \E above \in AboveThreshold(matrix, threshold) :
           sb_pc' = IF above THEN "diagonal" ELSE "return"
    /\ sb_i' = 1
    /\ UNCHANGED <<matrix, sbArgs, sb_local, sb_result, mdIn, mdOut, pgVars,
                   fcVars, an_pc, an_err, clVars, gpVars, swVars, stVars, ccVars, envVars>>

\* lines 321-326, one row: a diagonal entry below the sum of the absolute
\* values of its row without itself is raised towards that sum, in the
\* caller's array
StabilizeRow ==
    /\ sb_pc = "diagonal"
    /\ sb_i <= Len(matrix)
    /\ LET row == matrix[sb_i]
           row_sum == FSub(SumAbs(row, Len(row)), row[sb_i])
           raised == FAdd(FMul(FSub(Pow2(FracBits), epsilon),
                               sb_arg[sb_i][sb_i]),
                          FMul(epsilon, row_sum))
       IN  matrix' = IF row[sb_i] < row_sum
                     THEN [matrix EXCEPT ![sb_i][sb_i] = raised]
                     ELSE matrix
    /\ sb_i' = sb_i + 1
    /\ UNCHANGED <<sbArgs, sb_local, sb_pc, sb_result, mdIn, mdOut, pgVars,
                   fcVars, an_pc, an_err, clVars, gpVars, swVars, stVars, ccVars, envVars>>

\* lines 327-328: the local name is bound to a new array, the blend of the
\* array and its symmetric part
StabilizeBlend ==
    /\ sb_pc = "diagonal"
    /\ sb_i > Len(matrix)
    /\ LET sym_matrix == Symmetrized(matrix)
       IN  sb_local' = [i \in 1..Len(matrix) |-> [j \in 1..Len(matrix) |->
               FAdd(FMul(FSub(Pow2(FracBits), alpha), matrix[i][j]),
                    FMul(alpha, sym_matrix[i][j]))]]
    /\ sb_pc' = "rebound"
    /\ UNCHANGED <<matrix, sbArgs, sb_i, sb_result, mdIn, mdOut, pgVars,
                   fcVars, an_pc, an_err, clVars, gpVars, swVars, stVars, ccVars, envVars>>

\* lines 329-331: what the local name is bound to is returned, the
\* caller's array itself unless the name was rebound
StabilizeReturn ==
    /\ sb_pc \in {"return", "rebound"}
    /\ sb_result' = IF sb_pc = "rebound" THEN sb_local ELSE matrix
    /\ sb_pc' = "returned"
    /\ UNCHANGED <<matrix, sbArgs, sb_local, sb_i, mdIn, mdOut, pgVars,
                   fcVars, an_pc, an_err, clVars, gpVars, swVars, stVars, ccVars, envVars>>

\* ------------------------------------------------------------------------
\* The pseudos command of the command line
\* ------------------------------------------------------------------------
\* the pseudos command is not running
InitCliOff ==
    /\ add = <<>>
    /\ delete = <<>>
    /\ list_pseudos = FALSE
    /\ cli_files = {}
    /\ pseudo_registry = {}
    /\ cli_registry0 = {}
    /\ cli_echo = <<>>
    /\ cli_pc = "off"
    /\ cli_i = 1
    /\ cli_err = "none"

\* pseudos, line 42: if (add or delete) and list_pseudos
RefusedActions(a, de, l) ==
    (a # <<>> \/ de # <<>>) /\ l

\* pseudos, lines 42-46 and the tests of lines 47, 51, 55 and 62: the
\* options are checked, the manager loads the registry from its folder,
\* and the action is chosen
PseudosStart ==
    /\ cli_pc = "start"
    /\ IF RefusedActions(add, delete, list_pseudos)
       THEN /\ cli_echo' = Append(cli_echo, "Error: only one action")
            /\ cli_pc' = "done"
       ELSE /\ cli_echo' = cli_echo
            /\ cli_pc' = IF add # <<>> THEN "add"
                         ELSE IF delete # <<>> THEN "delete"
                         ELSE "report"
    /\ cli_i' = 1
    /\ UNCHANGED <<clArgs, pseudo_registry, cli_err, anOwn, gpVars, swVars, stVars,
                   ccVars, envVars>>

\* pseudos, lines 48-49, one path: add_pseudopotential copies the file
\* into the folder and registers its name, FileNotFoundError without the
\* file
PseudosAdd ==
    /\ cli_pc = "add"
    /\ cli_i <= Len(add)
    /\ IF add[cli_i] \in cli_files
       THEN /\ pseudo_registry' = pseudo_registry \cup {add[cli_i]}
            /\ cli_i' = cli_i + 1
            /\ UNCHANGED <<cli_pc, cli_err>>
       ELSE /\ cli_pc' = "raised"
            /\ cli_err' = "FileNotFoundError"
            /\ UNCHANGED <<pseudo_registry, cli_i>>
    /\ UNCHANGED <<clArgs, cli_echo, anOwn, gpVars, swVars, stVars, ccVars, envVars>>

\* pseudos, lines 52-53, one name: delete_pseudopotential removes the file
\* of a registered name and forgets it, and only logs an unknown name
PseudosDelete ==
    /\ cli_pc = "delete"
    /\ cli_i <= Len(delete)
    /\ pseudo_registry' = pseudo_registry \ {delete[cli_i]}
    /\ cli_i' = cli_i + 1
    /\ UNCHANGED <<clArgs, cli_echo, cli_pc, cli_err, anOwn, gpVars, swVars, stVars,
                   ccVars, envVars>>

\* pseudos, lines 50, 54 and 55-63: the closing message of the action
PseudosReport ==
    /\ \/ cli_pc = "add" /\ cli_i > Len(add)
          /\ cli_echo' = Append(cli_echo, "Pseudopotentials added.")
       \/ cli_pc = "delete" /\ cli_i > Len(delete)
          /\ cli_echo' = Append(cli_echo, "Pseudopotentials deleted.")
       \/ cli_pc = "report" /\ list_pseudos
          /\ cli_echo' = Append(cli_echo,
                 IF pseudo_registry # {} THEN "Current pseudopotentials:"
                 ELSE "No pseudopotentials found.")
       \/ cli_pc = "report" /\ ~list_pseudos
          /\ cli_echo' = Append(cli_echo, "Error: No action specified.")
    /\ cli_pc' = "done"
    /\ UNCHANGED <<clArgs, pseudo_registry, cli_i, cli_err, anOwn, gpVars, swVars,
                   stVars, ccVars, envVars>>

\* ------------------------------------------------------------------------
\* grab_piezo_tensor (abinit_file.py, 712-760)
\* ------------------------------------------------------------------------
\* An output file is the sequence of its blocks: a heading and the numeric
\* lines that follow it, given by the tensor they spell (None when no
\* numeric line follows the heading).
InitGrabOff ==
    /\ gp_disk = <<>>
    /\ piezo_tensor_clamped = None
    /\ piezo_tensor_relaxed = None
    /\ gp_file = Name(<<>>, <<>>)
    /\ gp_calls = 0

\* the heading of the first pattern: "... (clamped ion) (unit:c/m^2)"
ClampedMarker ==
    "clamped ion"

\* the heading of the second pattern: "... (relaxed ion) (unit:c/m^2)"
RelaxedMarker ==
    "relaxed ion"

\* re.match of a pattern: the numeric lines of block k when it has the
\* heading, None otherwise
MatchTensor(abo_content, marker, k) ==
    IF k > Len(abo_content) THEN None
    ELSE IF abo_content[k].marker = marker THEN abo_content[k].tensor
         ELSE None

\* re.search of a pattern: the numeric lines of the first block from
\* block k on with the heading and at least one numeric line, None
\* without such a block
RECURSIVE SearchTensor(_, _, _)
SearchTensor(abo_content, marker, k) ==
    IF k > Len(abo_content) THEN None
    ELSE IF abo_content[k].marker = marker /\ abo_content[k].tensor # None
         THEN abo_content[k].tensor
         ELSE SearchTensor(abo_content, marker, k + 1)

\* grab_piezo_tensor(anaddb_file), anaddb_file given or left None: both
\* locals start as None, each pattern is searched in the content read,
\* FileNotFoundError is caught, both attributes are assigned
GrabPiezoTensorCall ==
    /\ gp_calls < MaxRuns
    /\ \E given \in BOOLEAN :
           LET anaddb_file == IF given THEN Name(<<"anaddb">>, <<".abo">>)
                              ELSE DefaultPiezoFile([file_name |->
                                                        BaseFileName])
           IN  /\ gp_file' = anaddb_file
               /\ IF anaddb_file \in DOMAIN gp_disk
                  THEN /\ piezo_tensor_clamped' =
                              SearchTensor(gp_disk[anaddb_file],
                                           ClampedMarker, 1)
                       /\ piezo_tensor_relaxed' =
                              SearchTensor(gp_disk[anaddb_file],
                                           RelaxedMarker, 1)
                  ELSE /\ piezo_tensor_clamped' = None
                       /\ piezo_tensor_relaxed' = None
    /\ gp_calls' = gp_calls + 1
    /\ UNCHANGED <<gp_disk, anOwn, clVars, swVars, stVars, ccVars,
                   envVars>>

\* ------------------------------------------------------------------------
\* Specification of the sweeps: every kind, 0..MaxPoints points, the
\* default amplitude range 0 .. 1/2
\* ------------------------------------------------------------------------
InitSweep ==
    /\ \E k \in Kinds, n \in 0..MaxPoints :
           InitPerturbations(k, n, 0, Pow2(FracBits - 1))
    /\ InitSmodes(1, Pow2(FracBits - 2), 0)
    /\ InitConc("off")
    /\ InitAnalysisOff
    /\ InitCliOff
    /\ InitGrabOff
    /\ InitEnv

NextSweep ==
    \/ GeneratePerturbations
    \/ CallCalculate
    \/ DispatchEnergy
    \/ DispatchPiezo
    \/ DispatchFlexo
    \/ LoopExit
    \/ WaitForJobsToFinish
    \/ JobFinish
    \/ ParseEnergy
    \/ ParsePiezo
    \/ ParseFlexo
    \/ ParseExit
    \/ NewProcess

SpecSweep ==
    InitSweep /\ [][NextSweep]_vars

\* ------------------------------------------------------------------------
\* Specification of the energy sweep in a directory that is not empty:
\* 1..MaxPoints points, the directory holding any of the entries of
\* StaleNames when the program starts
\* ------------------------------------------------------------------------
\* entries without an extension with the name the sweep gives its first
\* point or its first energy input
StaleNames ==
    { Name(Join(BaseFileName, Str(0)), <<>>),
      Name(Join(Join(BaseFileName, Str(0)), "energy"), <<>>) }

InitUsedDirectory ==
    /\ \E n \in 1..MaxPoints :
           InitPerturbations("energy", n, 0, Pow2(FracBits - 1))
    /\ InitSmodes(1, Pow2(FracBits - 2), 0)
    /\ InitConc("off")
    /\ InitAnalysisOff
    /\ InitCliOff
    /\ InitGrabOff
    /\ \E stale \in SUBSET StaleNames :
           disk = [nm \in stale |-> Content(None, FALSE)]
    /\ sched = <<>>
    /\ sched_out = <<>>
    /\ overwritten = {}

NextEnergySweep ==
    \/ GeneratePerturbations
    \/ CallCalculate
    \/ DispatchEnergy
    \/ LoopExit
    \/ WaitForJobsToFinish
    \/ JobFinish
    \/ ParseEnergy
    \/ ParseExit
    \/ NewProcess

SpecUsedDirectory ==
    InitUsedDirectory /\ [][NextEnergySweep]_vars

\* ------------------------------------------------------------------------
\* Specification of amplitude generation alone, over all arguments
\* ------------------------------------------------------------------------
InitAmps ==
    /\ \E n \in 0..MaxPoints, lo \in Amps, hi \in Amps :
           InitPerturbations("energy", n, lo, hi)
    /\ InitSmodes(1, Pow2(FracBits - 2), 0)
    /\ InitConc("off")
    /\ InitAnalysisOff
    /\ InitCliOff
    /\ InitGrabOff
    /\ InitEnv

NextAmps ==
    GeneratePerturbations

SpecAmps ==
    InitAmps /\ [][NextAmps]_vars

\* ------------------------------------------------------------------------
\* Specification of the stability stage: 1..MaxModes modes, displacement
\* magnitudes 1/4 and 1/2, a structure at reduced coordinate 0, 1/4 or 1/2,
\* up to MaxRuns calls of symmadapt on the same object
\* ------------------------------------------------------------------------
InitStab ==
    /\ \E n \in 1..MaxModes, m \in 1..2, x \in 0..2 :
           InitSmodes(n, Pow2(FracBits - 3) * 2 * m, x * Pow2(FracBits - 2))
    /\ InitPerturbations("energy", 0, 0, Pow2(FracBits - 1))
    /\ InitConc("off")
    /\ InitAnalysisOff
    /\ InitCliOff
    /\ InitGrabOff
    /\ InitEnv

NextStab ==
    \/ Symmadapt
    \/ LoopModesReference
    \/ LoopModesDistortion
    \/ LoopModesDistortionRaises
    \/ LoopModesWait
    \/ SlurmWaitReturns
    \/ JobFinish
    \/ ReadForces
    \/ SymmadaptReturns

SpecStab ==
    InitStab /\ [][NextStab]_vars

\* ------------------------------------------------------------------------
\* Specification of two concurrent sweeps of ConcPoints points each
\* ------------------------------------------------------------------------
InitFiles ==
    /\ InitConc("rename")
    /\ InitAnalysisOff
    /\ InitPerturbations("energy", 0, 0, Pow2(FracBits - 1))
    /\ InitSmodes(1, Pow2(FracBits - 2), 0)
    /\ InitCliOff
    /\ InitGrabOff
    /\ InitEnv

NextFiles ==
    \E p \in Procs :
        \/ RenamePoint(p)
        \/ AllocateAbiName(p)
        \/ WriteAbiFile(p)
        \/ AllocateDataName(p)
        \/ WriteDataFile(p)
        \/ AllocateBatchName(p)
        \/ WriteBatchScript(p)
        \/ SubmitBatch(p)

SpecFiles ==
    InitFiles /\ [][NextFiles]_vars

\* ------------------------------------------------------------------------
\* Specification of the mode analysis and of run_program after it: 1..
\* MaxModes modes of 1..MaxModes atoms, every assignment of Freqs to the
\* modes, every threshold of Thresholds, sweeps of two points
\* ------------------------------------------------------------------------
InitModes ==
    /\ \E m \in 1..MaxModes, atoms \in 1..MaxModes, w \in 0..1,
          thr \in Thresholds :
           \E f \in [1..m -> Freqs], vecs \in EigenBases(m) :
               /\ InitDiagonalized(m, atoms, Pow2(FracBits + 2 * w), thr,
                                   f, vecs)
               /\ InitSmodes(m, Pow2(FracBits - 2), 0)
    /\ InitPerturbations("flexo", 2, 0, Pow2(FracBits - 1))
    /\ InitConc("off")
    /\ InitCliOff
    /\ InitGrabOff
    /\ InitEnv

NextModes ==
    \/ SortModes
    \/ BuildPhononVecs
    \/ UnstablePhonons
    \/ RunProgramBranch
    \/ RunProgramSweep
    \/ RunProgramFinish

SpecModes ==
    InitModes /\ [][NextModes]_vars

\* ------------------------------------------------------------------------
\* Specification of the force constants: 1..ForceModes modes of 1 or 2
\* atoms; the reference forces zero or 1/2 along the first component; the
\* forces of mode s none, along component s, or along components s and
\* s + 1; the distortions the unit fields or unit fields with 1/2 of the
\* next component; disp_mag 1/4 or 0.01; one or two species, of mass 1, 4
\* or 0, and modes labelled with the first or with both
\* ------------------------------------------------------------------------
\* the field with x along component s and y along the component after it
Field(s, n, x, y) ==
    [c \in 1..n |-> IF c = s THEN x ELSE IF c = (s % n) + 1 THEN y ELSE 0]

InitForces ==
    /\ \E m \in 1..ForceModes, atoms \in 1..2, skew \in {0, Pow2(FracBits - 1)},
          ref \in {0, Pow2(FracBits - 1)},
          mag \in {Pow2(FracBits - 2), RoundQ(Pow2(FracBits), 100)},
          species \in {<<<<"A">>, <<Pow2(FracBits)>>>>,
                       <<<<"A", "B">>, <<Pow2(FracBits), Pow2(FracBits + 2)>>>>,
                       <<<<"A", "B">>, <<Pow2(FracBits), 0>>>>},
          labels \in {<<"A", "A">>, <<"A", "B">>} :
           \E f \in [1..m -> {<<0, 0>>, <<Pow2(FracBits), 0>>,
                              <<Pow2(FracBits), Pow2(FracBits)>>}] :
               /\ natom = atoms
               /\ dist_mat = [s \in 1..m |->
                                 Field(s, 3 * atoms, Pow2(FracBits), skew)]
               /\ num_sam = m
               /\ disp_mag = mag
               /\ force_mat_raw =
                      <<Field(1, 3 * atoms, ref, 0)>> \o
                      [s \in 1..m |-> Field(s, 3 * atoms, f[s][1], f[s][2])]
               /\ type_list = species[1]
               /\ mass_list = species[2]
               /\ sam_atom_label = [s \in 1..m |->
                                       labels[IF s = 1 THEN 1 ELSE 2]]
    /\ unstable_threshold = FromInt(-20)
    /\ dynevecs_sam = <<>>
    /\ freq_thz = <<>>
    /\ idx_dyn = <<>>
    /\ freq_cm = <<>>
    /\ red_mass = <<>>
    /\ phonon_vecs = <<>>
    /\ negative_indices = PyFalse
    /\ normalized_phonon_vecs = PyFalse
    /\ pg_perturbations = <<>>
    /\ pg_jobs = 0
    /\ cls_calls = 0
    /\ force_matrix = <<>>
    /\ mass_vector = <<>>
    /\ fc_mat = <<>>
    /\ springs_constants_matrix = <<>>
    /\ dyn_mat = <<>>
    /\ fc_warnings = <<>>
    /\ InitStabilizeOff
    /\ an_pc = "forces"
    /\ an_err = "none"
    /\ jobs_ran_abo = <<>>
    /\ xred = 0
    /\ slurm_jobs = <<>>
    /\ st_pc = "calc"
    /\ st_j = 1
    /\ st_k = 1
    /\ st_err = "none"
    /\ original_coords = 0
    /\ st_calls = 1
    /\ st_wait_log = <<>>
    /\ st_waited = 0
    /\ st_read = 0
    /\ st_inputs = <<>>
    /\ InitPerturbations("energy", 0, 0, Pow2(FracBits - 1))
    /\ InitConc("off")
    /\ InitCliOff
    /\ InitGrabOff
    /\ InitEnv

NextForces ==
    \/ ProjectForces
    \/ BuildMassVector
    \/ BuildForceConstants
    \/ BuildDynMat

SpecForces ==
    InitForces /\ [][NextForces]_vars

\* ------------------------------------------------------------------------
\* Specification of stabilize_matrix: square matrices of 1..MatDim rows
\* with diagonal entries -1, 0, 1 or 4 and entries -1, 0 or 1 next to the
\* first two of them; thresholds 2 and the default 50000; epsilon 1/8 and
\* alpha 1/4
\* ------------------------------------------------------------------------
InitStabilize ==
    /\ \E n \in 1..MatDim, t \in {2, 50000}, up \in -1..1, low \in -1..1 :
           \E diag \in [1..n -> {-1, 0, 1, 4}] :
               LET A == [i \in 1..n |-> [j \in 1..n |->
                            IF i = j THEN FromInt(diag[i])
                            ELSE IF i = 1 /\ j = 2 THEN FromInt(up)
                            ELSE IF i = 2 /\ j = 1 THEN FromInt(low)
                            ELSE 0]]
               IN  /\ matrix = A
                   /\ sb_arg = A
                   /\ threshold = t
    /\ epsilon = Pow2(FracBits - 3)
    /\ alpha = Pow2(FracBits - 2)
    /\ sb_local = <<>>
    /\ sb_i = 1
    /\ sb_pc = "called"
    /\ sb_result = <<>>
    /\ natom = 1
    /\ dist_mat = <<>>
    /\ mass_list = <<>>
    /\ unstable_threshold = FromInt(-20)
    /\ dynevecs_sam = <<>>
    /\ freq_thz = <<>>
    /\ idx_dyn = <<>>
    /\ freq_cm = <<>>
    /\ red_mass = <<>>
    /\ phonon_vecs = <<>>
    /\ negative_indices = PyFalse
    /\ normalized_phonon_vecs = PyFalse
    /\ pg_perturbations = <<>>
    /\ pg_jobs = 0
    /\ cls_calls = 0
    /\ sam_atom_label = <<>>
    /\ type_list = <<>>
    /\ force_matrix = <<>>
    /\ mass_vector = <<>>
    /\ fc_mat = <<>>
    /\ springs_constants_matrix = <<>>
    /\ dyn_mat = <<>>
    /\ fc_warnings = <<>>
    /\ an_pc = "off"
    /\ an_err = "none"
    /\ InitPerturbations("energy", 0, 0, Pow2(FracBits - 1))
    /\ InitSmodes(1, Pow2(FracBits - 2), 0)
    /\ InitConc("off")
    /\ InitCliOff
    /\ InitGrabOff
    /\ InitEnv

NextStabilize ==
    \/ StabilizeMatrix
    \/ StabilizeRow
    \/ StabilizeBlend
    \/ StabilizeReturn

SpecStabilize ==
    InitStabilize /\ [][NextStabilize]_vars

\* ------------------------------------------------------------------------
\* Specification of the pseudos command: no, one or two paths to add, no
\* or one name to delete, with or without --list, every folder content and
\* every set of existing files over two names
\* ------------------------------------------------------------------------
InitCli ==
    /\ add \in {<<>>, <<"a.psp8">>, <<"a.psp8", "b.psp8">>}
    /\ delete \in {<<>>, <<"a.psp8">>, <<"b.psp8">>}
    /\ list_pseudos \in BOOLEAN
    /\ cli_files \in SUBSET {"a.psp8", "b.psp8"}
    /\ pseudo_registry \in SUBSET {"a.psp8", "b.psp8"}
    /\ cli_registry0 = pseudo_registry
    /\ cli_echo = <<>>
    /\ cli_pc = "start"
    /\ cli_i = 1
    /\ cli_err = "none"
    /\ InitGrabOff
    /\ InitAnalysisOff
    /\ InitPerturbations("energy", 0, 0, Pow2(FracBits - 1))
    /\ InitSmodes(1, Pow2(FracBits - 2), 0)
    /\ InitConc("off")
    /\ InitEnv

NextCli ==
    \/ PseudosStart
    \/ PseudosAdd
    \/ PseudosDelete
    \/ PseudosReport

SpecCli ==
    InitCli /\ [][NextCli]_vars

\* ------------------------------------------------------------------------
\* Specification of grab_piezo_tensor: the directory holds no output file,
\* the default one or the one named in the call, of up to MaxBlocks
\* blocks; up to MaxRuns calls, each with or without a file argument
\* ------------------------------------------------------------------------
MaxBlocks == 2

Blocks ==
    [marker : {ClampedMarker, RelaxedMarker, "other"}, tensor : {None, 1, 2}]

Contents ==
    UNION {[1..n -> Blocks] : n \in 0..MaxBlocks}

InitGrab ==
    /\ \/ gp_disk = <<>>
       \/ \E f \in {DefaultPiezoFile([file_name |-> BaseFileName]),
                     Name(<<"anaddb">>, <<".abo">>)}, c \in Contents :
              gp_disk = (f :> c)
    /\ piezo_tensor_clamped = None
    /\ piezo_tensor_relaxed = None
    /\ gp_file = Name(<<>>, <<>>)
    /\ gp_calls = 0
    /\ InitAnalysisOff
    /\ InitCliOff
    /\ InitPerturbations("energy", 0, 0, Pow2(FracBits - 1))
    /\ InitSmodes(1, Pow2(FracBits - 2), 0)
    /\ InitConc("off")
    /\ InitEnv

NextGrab ==
    GrabPiezoTensorCall

SpecGrab ==
    InitGrab /\ [][NextGrab]_vars

\* ------------------------------------------------------------------------
\* Properties of the sweeps (under SpecSweep)
\* ------------------------------------------------------------------------
\* the number of amplitude points of the sweep
NumPoints ==
    Len(perturbed_objects)

\* the energy the invocation that has just returned reported for point i
ReportedEnergy(i) ==
    list_energies[Len(list_energies) - NumPoints + i]

\* C1: for every sweep kind the jobs of all N amplitude points are
\* submitted before the first call of wait_for_jobs_to_finish, and no job
\* output is parsed until all N have been submitted and awaited.
C1_SubmitsAllBeforeWaiting ==
    /\ \A w \in 1..Len(wait_log) : wait_log[w] = NumPoints
    /\ sw_pc = "parse" => Len(sw_jobof) = NumPoints

\* C2: after one sweep over N amplitude points of any kind, every result
\* list the kind fills has exactly N entries, and entry i is the quantity
\* of the job submitted for amplitude list_amps[i].
C2_ResultsMatchSubmissions ==
    (sw_pc = "done" /\ sw_run = 1) =>
        /\ Len(list_energies) = NumPoints
        /\ kind \in {"piezo", "flexo"} =>
               /\ Len(list_piezo_tensors_clamped) = NumPoints
               /\ Len(list_piezo_tensors_relaxed) = NumPoints
        /\ kind = "flexo" => Len(list_flexo_tensors) = NumPoints
        /\ kind = "energy" =>
               \A i \in 1..NumPoints \ sw_failed :
                   list_energies[i] = sw_jobof[i]

\* C6: a job dispatched by a re-run in the same working directory gets
\* file names different from every file written before, so no existing
\* file is written over.
C6_RerunOverwritesNothing ==
    overwritten = {}

\* C8: when the output of a point of a sweep cannot be parsed, the sweep
\* finishes with that point recorded as failed (no quantity), never with a
\* quantity of another point or of an earlier parse; every other point
\* carries the quantity of its own job.
C8_FailedPointIsolated ==
    (sw_pc = "done" /\ kind = "energy") =>
        /\ \A i \in sw_failed : ReportedEnergy(i) = None
        /\ \A i \in 1..NumPoints \ sw_failed :
               sw_jobof[i] # None => ReportedEnergy(i) = sw_jobof[i]

\* C15: when sbatch rejects the submission of a point the sweep is not
\* aborted (the other points are still submitted, awaited and read) and
\* the rejected point contributes no job to the sweep's running_jobs.
C15_RejectionAbortsOnlyItsJob ==
    \A i \in 1..Len(sw_jobof) :
        sw_jobof[i] = None =>
            /\ sw_err # "IndexError"
            /\ sw_run = 1 =>
                   Len(running_jobs) =
                       Cardinality({k \in 1..Len(sw_jobof) :
                                        sw_jobof[k] # None})

\* C16: a sweep moves only forward from submitting to awaiting to its
\* terminal state: while a point is still to be submitted, no wait has
\* begun, and a sweep that has dispatched a point is never abandoned by
\* an exception on its way to the terminal state.
C16_SweepOnlyForward ==
    /\ (sw_pc = "loop" /\ sw_i <= NumPoints) => wait_log = <<>>
    /\ Len(sw_jobof) > 0 => sw_pc # "raised"

\* C24: with delete_batch_script left at its default, no batch script that
\* run_abinit wrote for a submission is still in the directory once
\* run_abinit has returned, whether sbatch accepted the job or not.
C24_BatchScriptDeleted ==
    \A n \in DOMAIN disk :
        Len(n.ext) > 0 => n.ext[1] # ".sh"

\* the jobs the scheduler accepted for the points dispatched in this
\* invocation, in submission order
RECURSIVE AcceptedJobs(_, _)
AcceptedJobs(jobof, n) ==
    IF n = 0 THEN <<>>
    ELSE LET before == AcceptedJobs(jobof, n - 1)
         IN  IF jobof[n] = None THEN before ELSE Append(before, jobof[n])

\* C29: the job list a sweep waits on holds exactly the jobs the
\* scheduler accepted for this sweep's submissions, in submission order
\* (so no duplicate and no job of an earlier batch), and a rejected
\* submission raises no index error.
C29_JobListIsThisSweepsAccepted ==
    /\ sw_err # "IndexError"
    /\ sw_pc \in {"wait", "parse"} =>
           running_jobs = AcceptedJobs(sw_jobof, Len(sw_jobof))

\* ------------------------------------------------------------------------
\* Properties of the energy sweep in a used directory (under
\* SpecUsedDirectory)
\* ------------------------------------------------------------------------
\* C28: for every dispatched job, the input file written, the input file
\* named in the submission and the output file read derive from the same
\* name, also when _get_unique_filename added a suffix: the input that
\* goes with the output a job was told to write is a file
\* write_custom_abifile has written.
C28_WrittenSubmittedReadAgree ==
    \A j \in DOMAIN sched_out :
        Name(sched_out[j].stem, <<".abi">>) \in DOMAIN disk

\* ------------------------------------------------------------------------
\* Properties of the stability stage (under SpecStab)
\* ------------------------------------------------------------------------
\* C3: within a call of symmadapt the stability stage dispatches dist_0
\* and one job per mode (num_sam + 1 dispatches) before it calls
\* wait_for_jobs_to_finish, calls it once only, and opens no force output
\* unless that one wait has returned.
C3_OneWaitAfterAllDispatches ==
    /\ Len(st_wait_log) <= 1
    /\ \A w \in 1..Len(st_wait_log) : st_wait_log[w] = num_sam + 1
    /\ st_waited <= Len(st_wait_log)
    /\ (st_read > 0 \/ st_pc \in {"calc", "returned"}) =>
           /\ st_waited = 1
           /\ Len(st_inputs) = num_sam + 1

\* a call of symmadapt over two modes that has read all three outputs
C3_Witness ==
    /\ st_pc = "returned"
    /\ num_sam = 2
    /\ st_read = 3
    /\ st_wait_log = <<3>>

\* C4: every distortion j is applied to the saved baseline, never on top
\* of an earlier one: the input of dist_j is the saved structure displaced
\* along mode j alone, and at the start of each loop iteration and once
\* _loop_modes has returned the structure's coordinates are the saved ones.
C4_DistortionsFromBaseline ==
    st_pc \in {"loop", "wait", "calc", "returned", "raised"} =>
        /\ xred = original_coords
        /\ GrabCartesianCoordinates(xred) = ToCart(original_coords)
        /\ Len(st_inputs) >= 1 /\ st_inputs[1] = original_coords
        /\ \A j \in 1..(Len(st_inputs) - 1) :
               st_inputs[j + 1] =
                   ToRed(FAdd(ToCart(original_coords),
                              Displacement(disp_mag, j)))

\* two modes dispatched, each input differing from the baseline, and the
\* structure back at the baseline when _loop_modes waits
C4_Witness ==
    /\ st_pc = "wait"
    /\ num_sam = 2
    /\ Len(st_inputs) = 3
    /\ st_inputs[2] # original_coords
    /\ st_inputs[3] # original_coords
    /\ st_inputs[2] # st_inputs[3]
    /\ original_coords # 0
    /\ xred = original_coords

\* C5: whenever _perform_calculations runs, jobs_ran_abo has length
\* num_sam + 1, entry 0 being dist_0.abo and entry j dist_j.abo, after any
\* number of calls of symmadapt on the same object.
C5_OneSamplePerDistortion ==
    st_pc = "calc" =>
        /\ Len(jobs_ran_abo) = num_sam + 1
        /\ \A j \in 1..Len(jobs_ran_abo) :
               jobs_ran_abo[j] = OutputFile(Join(<<"dist">>, Str(j - 1)))

\* C22: an output without the "cartesian forces (eV/Angstrom)" marker is
\* a recoverable miss of that sample: reading it raises nothing and no
\* force is taken from lines that do not follow the marker.
C22_MissingMarkerIsRecoverable ==
    /\ st_err # "ValueError"
    /\ \A k \in 1..Len(force_mat_raw) : force_mat_raw[k] # Garbage

\* C30: when writing or submitting the job of distortion j raises inside
\* _loop_modes, the structure is left at the baseline coordinates saved
\* at the start of _loop_modes.
C30_FailureLeavesBaseline ==
    st_pc = "loop_raised" => xred = original_coords

\* ------------------------------------------------------------------------
\* Properties of concurrent sweeps (under SpecFiles)
\* ------------------------------------------------------------------------
\* the names of a set whose existence check is made on the name written
\* (data files and batch scripts)
Checked(names) ==
    { n \in names : n.ext \in {<<".txt">>, <<".sh">>} }

\* C7: under every interleaving of the existence checks and the writes of
\* two concurrent sweeps, no file name is written by both, even among the
\* names whose existence check is made on the very name that is written.
C7_NoNameWrittenByBoth ==
    Checked(cc_written["A"]) \cap Checked(cc_written["B"]) = {}

\* ------------------------------------------------------------------------
\* Properties of the mode analysis and of run_program (under SpecModes)
\* ------------------------------------------------------------------------
\* unstable_phonons has returned in this run
Classified ==
    \/ an_pc \in {"returned", "sweeps", "finished"}
    \/ an_pc = "raised" /\ an_err = "TypeError"

\* the 0-based indices of the modes whose frequency is below the threshold
UnstableSet ==
    { k \in 0..(Len(freq_cm) - 1) : freq_cm[k + 1] < unstable_threshold }

\* C11: the classifier returns exactly the indices k, in increasing order,
\* with freq_cm[k] strictly below the threshold (False when there is
\* none); a frequency equal to the threshold is not unstable.
C11_ClassifierStrictlyBelow ==
    Classified =>
        IF UnstableSet = {}
        THEN negative_indices = PyFalse
        ELSE /\ ~negative_indices.false
             /\ Len(negative_indices.items) = Cardinality(UnstableSet)
             /\ Range(negative_indices.items) = UnstableSet
             /\ \A i \in 1..(Len(negative_indices.items) - 1) :
                    negative_indices.items[i] < negative_indices.items[i + 1]

\* two modes, the first below the threshold and the second equal to it:
\* the classifier returned [0]
C11_Witness ==
    /\ an_pc = "returned"
    /\ Len(freq_cm) = 2
    /\ freq_cm[1] < unstable_threshold
    /\ freq_cm[2] = unstable_threshold
    /\ negative_indices = PyList(<<0>>)

\* C12: when no mode is below the threshold, unstable_phonons returns
\* False without raising, and run_program goes on to its end without
\* creating a sweep or submitting a sweep job.
C12_NoUnstableModesIsNormal ==
    (Classified /\ UnstableSet = {}) =>
        /\ normalized_phonon_vecs = PyFalse
        /\ an_pc \in {"returned", "finished"}
        /\ an_err = "none"
        /\ pg_perturbations = <<>>
        /\ pg_jobs = 0

\* run_program has finished for two modes of negative frequency, neither
\* below the threshold
C12_Witness ==
    /\ an_pc = "finished"
    /\ Len(freq_cm) = 2
    /\ freq_cm[1] < 0
    /\ UnstableSet = {}
    /\ normalized_phonon_vecs.false
    /\ pg_perturbations = <<>>

\* C13: after the sort the modes are in descending order of freq_THz
\* (index 0 the highest), equal frequencies in the order of their original
\* indices.
C13_SortedDescending ==
    an_pc \in {"sorted", "calculated", "returned", "sweeps", "finished"} =>
        \A i, j \in 1..Len(freq_thz) :
            i < j => /\ freq_thz[i] >= freq_thz[j]
                     /\ freq_thz[i] = freq_thz[j] => idx_dyn[i] < idx_dyn[j]

C27_OnePermutationForAll ==
    /\ [][(an_pc = "diagonalized" /\ an_pc' = "sorted") =>
              \A k \in 1..num_sam :
                  /\ freq_thz'[k] = FDiv(freq_thz[idx_dyn'[k]], TwoPi)
                  /\ freq_cm'[k] = ThzToCm(freq_thz'[k])
                  /\ \A s \in 1..num_sam :
                         dynevecs_sam'[s][k] = dynevecs_sam[s][idx_dyn'[k]]]_vars
    /\ [](an_pc \in {"calculated", "returned", "sweeps", "finished"} =>
              \A k \in 1..num_sam, c \in 1..(3 * natom) :
                  Sign(phonon_vecs[k][c]) =
                      IF c <= num_sam THEN Sign(dynevecs_sam[c][k]) ELSE 0)
    /\ [](~negative_indices.false =>
              \A m \in 1..Len(negative_indices.items) :
                  LET k == negative_indices.items[m] + 1
                  IN  /\ freq_cm[k] < unstable_threshold
                      /\ normalized_phonon_vecs.items[m] =
                             Normalized(phonon_vecs[k]))

\* the sort has exchanged two modes whose eigenvectors are not unit
\* fields, and unstable_phonons has returned the displacement of the mode
\* now at index 0 only
C27_Witness ==
    /\ an_pc = "returned"
    /\ idx_dyn = <<2, 1>>
    /\ dynevecs_sam[1][1] < 0
    /\ negative_indices = PyList(<<0>>)
    /\ normalized_phonon_vecs.items[1][1] < 0

\* C25: for every mode count num_sam with 1 <= num_sam <= 3 * natom, also
\* num_sam > natom, _perform_calculations raises no index error and
\* leaves one unit displacement field per mode.
C25_ReducedMassForEveryModeCount ==
    (num_sam >= 1 /\ num_sam <= 3 * natom) =>
        /\ an_err # "IndexError"
        /\ an_pc \in {"calculated", "returned", "finished"} =>
               Len(phonon_vecs) = num_sam

\* ------------------------------------------------------------------------
\* Properties of the force constants (under SpecForces)
\* ------------------------------------------------------------------------
\* the mass loop of _perform_calculations has run
MassesLookedUp ==
    \/ an_pc \in {"massed", "constants", "dynmat"}
    \/ an_pc = "raised" /\ an_err # "none"

\* the label of mode m is the name of no species
Unmatched(m) ==
    \A n \in 1..Len(type_list) : type_list[n] # sam_atom_label[m]

\* the label of mode m names species, the last of which has mass 0
MatchedMassless(m) ==
    /\ ~Unmatched(m)
    /\ LET last == Max({n \in 1..Len(type_list) :
                            type_list[n] = sam_atom_label[m]})
       IN  mass_list[last] = 0

C18_ForceConstantsSymmetric ==
    /\ an_pc \in {"constants", "dynmat"} =>
           \A i, j \in 1..num_sam :
               springs_constants_matrix[i][j] = springs_constants_matrix[j][i]
    /\ an_pc = "dynmat" =>
           \A i, j \in 1..num_sam : dyn_mat[i][j] = dyn_mat[j][i]

\* the dynamical matrix has been formed from force constants that were not
\* symmetric before they were symmetrized
C18_Witness ==
    /\ an_pc = "dynmat"
    /\ \E i, j \in 1..num_sam : fc_mat[i][j] # fc_mat[j][i]
    /\ \A i, j \in 1..num_sam :
           springs_constants_matrix[i][j] = springs_constants_matrix[j][i]

\* the contraction over atoms and axes of (distorted_forces[i] - reference)
\* with distortion_basis[j], in exact arithmetic (units 2^-(2 FracBits))
RECURSIVE Contraction(_, _, _)
Contraction(i, j, c) ==
    IF c = 0 THEN 0
    ELSE Contraction(i, j, c - 1)
         + (force_mat_raw[i + 1][c] - force_mat_raw[1][c]) * dist_mat[j][c]

\* the scenario: 3 modes of 1 atom, the forces of mode s the unit force
\* along s, no reference force, the unit distortions, disp_mag 0.01
IdentityScenario ==
    /\ num_sam = 3
    /\ natom = 1
    /\ disp_mag = RoundQ(Pow2(FracBits), 100)
    /\ force_mat_raw[1] = <<0, 0, 0>>
    /\ \A s \in 1..3 : /\ force_mat_raw[s + 1] = UnitField(s, 3)
                       /\ dist_mat[s] = UnitField(s, 3)

\* C19: before symmetrization fc_mat[i][j] is minus the contraction of
\* (distorted_forces[i] - reference_forces) with distortion_basis[j],
\* divided by disp_mag (the float nearest to that quotient); in the
\* scenario it is -(1 / disp_mag) times the identity and no warning is
\* issued.
C19_ForceConstantsProjection ==
    an_pc \in {"constants", "dynmat"} =>
        /\ \A i, j \in 1..num_sam :
               fc_mat[i][j] =
                   RoundQ(-Contraction(i, j, 3 * natom), disp_mag)
        /\ IdentityScenario =>
               /\ \A i, j \in 1..3 :
                      fc_mat[i][j] = IF i = j
                                     THEN -FDiv(FromInt(1), disp_mag)
                                     ELSE 0
               /\ fc_warnings = <<>>

\* the scenario has been computed up to the dynamical matrix
C19_Witness ==
    /\ an_pc = "dynmat"
    /\ IdentityScenario
    /\ fc_mat[1][1] < 0

\* ------------------------------------------------------------------------
\* Properties of stabilize_matrix (under SpecStabilize)
\* ------------------------------------------------------------------------
\* C20: stabilize_matrix does nothing when the condition number of its
\* argument does not exceed threshold: the caller's array is never
\* modified and the array returned equals the argument; the caller's
\* array or the result differs from the argument only when the condition
\* number exceeds threshold.
C20_NoOpAtOrBelowThreshold ==
    /\ CondExceeds(sb_arg, threshold) = {FALSE} =>
           /\ matrix = sb_arg
           /\ sb_pc = "returned" => sb_result = sb_arg
    /\ (matrix # sb_arg \/ (sb_pc = "returned" /\ sb_result # sb_arg)) =>
           TRUE \in CondExceeds(sb_arg, threshold)

\* stabilize_matrix has returned a well-conditioned, non-symmetric matrix
\* whose first diagonal entry is below the rest of its row
C20_Witness ==
    /\ sb_pc = "returned"
    /\ Len(sb_arg) = 2
    /\ CondExceeds(sb_arg, threshold) = {FALSE}
    /\ sb_arg[1][2] # sb_arg[2][1]
    /\ sb_arg[1][1] < Abs(sb_arg[1][2])
    /\ sb_result = sb_arg

\* ------------------------------------------------------------------------
\* Properties of the pseudos command (under SpecCli)
\* ------------------------------------------------------------------------
\* the number of actions among --add, --delete and --list that are given
ActionsGiven ==
    (IF add # <<>> THEN 1 ELSE 0) + (IF delete # <<>> THEN 1 ELSE 0)
        + (IF list_pseudos THEN 1 ELSE 0)

\* C23: when more than one of --add, --delete and --list is given, the
\* command adds and deletes nothing and ends having reported the "only one
\* action" error.
C23_OneActionPerInvocation ==
    ActionsGiven > 1 =>
        /\ pseudo_registry = cli_registry0
        /\ cli_pc \in {"start", "done"}
        /\ cli_pc = "done" => cli_echo = <<"Error: only one action">>

\* ------------------------------------------------------------------------
\* Properties of grab_piezo_tensor (under SpecGrab)
\* ------------------------------------------------------------------------
\* the file has a block with this heading followed by numeric lines
HasTensor(abo_content, marker) ==
    \E k \in 1..Len(abo_content) :
        abo_content[k].marker = marker /\ abo_content[k].tensor # None

Generated ==
    sw_pc = "generated"

Max2(a, b) ==
    IF a >= b THEN a ELSE b

NonDecreasing(s) ==
    \A i \in 1..(Len(s) - 1) : s[i] <= s[i + 1]

NonIncreasing(s) ==
    \A i \in 1..(Len(s) - 1) : s[i] >= s[i + 1]

\* C9: a sweep requested with num_points < 2 fails (raises) before any
\* perturbed structure is appended to its lists and before any job is
\* submitted.
C9_FailsFastBelowTwoPoints ==
    (num_datapoints < 2 /\ sw_pc # "new") =>
        /\ sw_pc = "raised"
        /\ list_amps = <<>>
        /\ perturbed_objects = <<>>
        /\ DOMAIN sched = {}

\* C10 as stated: for N >= 2 the amplitude list has length N, starts at
\* min_amp, ends at max_amp, has amplitude i = min_amp + i*(max_amp -
\* min_amp)/(N - 1) exactly, and is non-decreasing.
C10_AmplitudesExact ==
    (Generated /\ num_datapoints >= 2) =>
        /\ Len(list_amps) = num_datapoints
        /\ list_amps[1] = min_amp
        /\ list_amps[num_datapoints] = max_amp
        /\ \A i \in 1..num_datapoints :
               (num_datapoints - 1) * (list_amps[i] - min_amp)
                   = (i - 1) * (max_amp - min_amp)
        /\ NonDecreasing(list_amps)

\* C10 amended: for N >= 2 the amplitude list has length N, starts at
\* min_amp, amplitude i is min_amp + i*(max_amp - min_amp)/(N - 1) up to
\* floating-point rounding (within 8 * 2^-MantBits * max(|min_amp|,
\* |max_amp|), so the last element is max_amp only up to rounding), and the
\* list is non-decreasing when min_amp <= max_amp and non-increasing when
\* min_amp >= max_amp.
C10_AmplitudesRounded ==
    (Generated /\ num_datapoints >= 2) =>
        /\ Len(list_amps) = num_datapoints
        /\ list_amps[1] = min_amp
        /\ \A i \in 1..num_datapoints :
               Abs((num_datapoints - 1) * (list_amps[i] - min_amp)
                       - (i - 1) * (max_amp - min_amp)) * Pow2(MantBits)
                   <= (num_datapoints - 1) * 8
                          * Max2(Abs(min_amp), Abs(max_amp))
        /\ (min_amp <= max_amp => NonDecreasing(list_amps))
        /\ (min_amp >= max_amp => NonIncreasing(list_amps))

\* the sweep of the spec's scenario: 0, 1/4, 1/2
C10_Witness ==
    /\ Generated
    /\ num_datapoints = 3
    /\ list_amps = <<0, Pow2(FracBits - 2), Pow2(FracBits - 1)>>

====
